---- MODULE Spec2Model ----
(***************************************************************************)
(* Model of the spatial-simulation core of resort-tycoon: the BuildingMap  *)
(* occupancy ledger, the construction and deconstruction pipelines, the    *)
(* job scheduler, the worker priority table, room detection and zone       *)
(* classification.                                                         *)
(*                                                                         *)
(* Conventions                                                             *)
(*  - A tile is a pair <<x, y>>; a world position is a pair of pixels.     *)
(*  - Time is counted in tenths of a second (dt), so that 50 units/s is    *)
(*    5 units per tenth and every quantity stays an integer.               *)
(*  - An entity is a positive integer; 0 stands for Option::None.          *)
(*  - Each Bevy system is one action.  Systems of different plugins are    *)
(*    not ordered by the program, so the actions interleave freely.        *)
(***************************************************************************)
EXTENDS Integers, Sequences, FiniteSets, TLC

VARIABLES
    grid_settings,        \* GridSettings resource: [width, height]
    building_map,         \* BuildingMap resource: [occupied, walls, doors, floors]
    money,                \* Money.amount
    blueprints,           \* entity -> Blueprint + GridPosition
    construction_jobs,    \* entity -> ConstructionJob
    structures,           \* entity -> finished Wall / Door / Window / Floor / Furniture
    markers,              \* entity -> DeconstructionMarker + GridPosition
    deconstruction_jobs,  \* entity -> DeconstructionJob
    pawns,                \* entity -> Pawn: position, CurrentJob, MovementTarget, WorkAssignments
    rooms,                \* entity -> Room.tiles
    zones,                \* entity -> Zone
    wall_changed,         \* a Wall's GridPosition was added since detect_rooms last ran
    next_entity,          \* the next entity id the world allocates
    save_file,            \* the SaveData held by the save file
    load_pending,         \* LoadRequestState.pending
    requests,             \* number of player requests made so far
    elapsed,              \* history: blueprint -> tenths of a second worked on it
    round_trip,           \* history: the wall round trip being followed
    detect_ran,           \* history: detect_rooms ran since the BuildingMap last changed
    last_call,            \* history: the last player request or call, and its inputs
    frame                 \* history: the systems that ran in the current frame, if followed

vars == <<grid_settings, building_map, money, blueprints, construction_jobs,
          structures, markers, deconstruction_jobs, pawns, rooms, zones,
          wall_changed, next_entity, save_file, load_pending, requests,
          elapsed, round_trip, detect_ran, last_call, frame>>

(***************************************************************************)
(* Bounds of the model.                                                    *)
(***************************************************************************)
MaxRequests == 2      \* player requests explored per behaviour of Spec
MaxCandidates == 2    \* length of a candidate list given to get_highest_priority_work
MaxElapsed == 25      \* tenths of a second of work the history of a blueprint counts

(***************************************************************************)
(* Program constants.                                                      *)
(***************************************************************************)
TILE_SIZE == 16
STARTING_MONEY == 10000
PAWN_MOVE_SPEED == 10          \* 100 pixels per second, per tenth of a second
CONSTRUCTION_SPEED == 5        \* 50 work units per second, per tenth of a second
DECONSTRUCTION_SPEED == 4      \* 40 work units per second, per tenth of a second
INTERACTION_TILES == 3         \* distance < TILE_SIZE * 3.0
MIN_ROOM_TILES == 4
NoEntity == 0

WorkTypes == {"Construction", "Reception", "Cleaning", "Cooking"}
NoTarget == <<>>

(***************************************************************************)
(* Finite maps.                                                            *)
(***************************************************************************)
Put(f, k, v) == [x \in (DOMAIN f) \cup {k} |-> IF x = k THEN v ELSE f[x]]
Del(f, k) == [x \in (DOMAIN f) \ {k} |-> f[x]]
DelAll(f, ks) == [x \in (DOMAIN f) \ ks |-> f[x]]
EmptyMap == [x \in {} |-> 0]

SetToSeq(S) ==
    LET RECURSIVE Build(_)
        Build(T) == IF T = {} THEN <<>>
                    ELSE LET m == CHOOSE a \in T : \A b \in T : a <= b
                         IN <<m>> \o Build(T \ {m})
    IN Build(S)

Min(a, b) == IF a <= b THEN a ELSE b
Max(a, b) == IF a >= b THEN a ELSE b

(***************************************************************************)
(* Grid coordinate system (systems/grid.rs).                               *)
(***************************************************************************)
GridTiles(gs) == (0 .. gs.width - 1) \X (0 .. gs.height - 1)

InGrid(gs, t) == t[1] >= 0 /\ t[1] < gs.width /\ t[2] >= 0 /\ t[2] < gs.height

grid_to_world(t, gs) ==
    << t[1] * TILE_SIZE - (gs.width * TILE_SIZE) \div 2 + TILE_SIZE \div 2,
       t[2] * TILE_SIZE - (gs.height * TILE_SIZE) \div 2 + TILE_SIZE \div 2 >>

DistSq(a, b) == (a[1] - b[1]) * (a[1] - b[1]) + (a[2] - b[2]) * (a[2] - b[2])

Shift(t, dx, dy) == <<t[1] + dx, t[2] + dy>>

(***************************************************************************)
(* BuildingMap (systems/building.rs).                                      *)
(***************************************************************************)
EmptyBuildingMap ==
    [occupied |-> {}, walls |-> EmptyMap, doors |-> EmptyMap, floors |-> {}]

is_occupied(bm, pos) == pos \in bm.occupied \/ pos \in DOMAIN bm.walls

(***************************************************************************)
(* Costs (ui/toolbar.rs) and work amounts (components/work.rs).            *)
(***************************************************************************)
FurnitureCost(ft) ==
    CASE ft = "BedSingle" -> 200
      [] ft = "BedDouble" -> 350
      [] ft = "Desk" -> 100
      [] ft = "Chair" -> 50
      [] ft = "Dresser" -> 150
      [] ft = "Nightstand" -> 75
      [] ft = "Toilet" -> 125
      [] ft = "Sink" -> 80
      [] ft = "Tub" -> 275
      [] ft = "ReceptionConsole" -> 300

FloorCost(flt) ==
    CASE flt = "Wood" -> 5
      [] flt = "Stone" -> 8
      [] flt = "Carpet" -> 12
      [] flt = "Tile" -> 10

\* BuildingType::cost; a building type is [kind, floor_type, furniture_type]
cost(bt) ==
    CASE bt.kind = "Wall" -> 10
      [] bt.kind = "Door" -> 50
      [] bt.kind = "Window" -> 30
      [] bt.kind = "Floor" -> FloorCost(bt.floor_type)
      [] bt.kind = "Furniture" -> FurnitureCost(bt.furniture_type)

WallType == [kind |-> "Wall", floor_type |-> "None", furniture_type |-> "None"]
DoorType == [kind |-> "Door", floor_type |-> "None", furniture_type |-> "None"]
WindowType == [kind |-> "Window", floor_type |-> "None", furniture_type |-> "None"]
FloorOf(flt) == [kind |-> "Floor", floor_type |-> flt, furniture_type |-> "None"]
FurnitureOf(ft) == [kind |-> "Furniture", floor_type |-> "None", furniture_type |-> ft]

\* A variant that tests the balance alone, not the balance against the cost
can_afford_while_solvent(amount, c) == amount >= 0

\* A variant that affords everything
can_afford_anything(amount, c) == TRUE

can_afford(amount, c) == amount >= c

\* Money::deduct
deduct(amount, c) == IF can_afford(amount, c) THEN amount - c ELSE amount

\* Blueprint::new: the work required per blueprint type
BlueprintWorkRequired(kind) ==
    CASE kind = "Wall" -> 100
      [] kind = "Door" -> 150
      [] kind = "Window" -> 120
      [] kind = "Floor" -> 50
      [] kind = "Furniture" -> 80

BlueprintNew(kind, orientation, floor_type, pos) ==
    [building_type |-> kind, orientation |-> orientation, floor_type |-> floor_type,
     pos |-> pos, work_required |-> BlueprintWorkRequired(kind), work_done |-> 0]

\* Blueprint::is_complete, DeconstructionMarker::is_complete
is_complete(b) == b.work_done >= b.work_required

\* ConstructionJob::new
ConstructionJobNew(bp) == [blueprint |-> bp, assigned_pawn |-> NoEntity]

(***************************************************************************)
(* Furniture footprints (components/furniture.rs).                         *)
(***************************************************************************)
base_dimensions(ft) ==
    CASE ft = "BedSingle" -> <<2, 3>>
      [] ft = "BedDouble" -> <<4, 4>>
      [] ft = "Desk" -> <<2, 2>>
      [] ft = "Chair" -> <<1, 1>>
      [] ft = "Dresser" -> <<2, 2>>
      [] ft = "Nightstand" -> <<1, 1>>
      [] ft = "Toilet" -> <<2, 2>>
      [] ft = "Sink" -> <<1, 1>>
      [] ft = "Tub" -> <<2, 4>>
      [] ft = "ReceptionConsole" -> <<1, 1>>

is_horizontal(orientation) == orientation \in {"East", "West"}

oriented_dimensions(ft, orientation) ==
    LET d == base_dimensions(ft)
    IN IF is_horizontal(orientation) THEN d ELSE <<d[2], d[1]>>

\* FurnitureType::tiles_occupied
tiles_occupied(ft, base_pos, orientation) ==
    LET d == oriented_dimensions(ft, orientation)
    IN {Shift(base_pos, x, y) : x \in 0 .. d[1] - 1, y \in 0 .. d[2] - 1}

\* Door::tiles_occupied and the door footprint of handle_building_placement
DoorTiles(base_pos, orientation) ==
    IF orientation = "Horizontal"
    THEN {base_pos, Shift(base_pos, 1, 0)}
    ELSE {base_pos, Shift(base_pos, 0, 1)}

(***************************************************************************)
(* The part of the world a placement handler reads and writes.             *)
(***************************************************************************)
World ==
    [building_map |-> building_map, money |-> money, blueprints |-> blueprints,
     construction_jobs |-> construction_jobs, structures |-> structures,
     next_entity |-> next_entity]

StructureNew(kind, pos, orientation, ft, flt) ==
    [kind |-> kind, pos |-> pos, orientation |-> orientation,
     furniture_type |-> ft, floor_type |-> flt]

\* commands.entity(e).despawn_recursive() of a wall the BuildingMap refers to:
\* the entity is a wall blueprint or a finished wall
DespawnEntity(w, e) ==
    [w EXCEPT !.blueprints = Del(@, e), !.structures = Del(@, e)]

\* spawn_blueprint + commands.spawn(ConstructionJob::new(blueprint_entity))
SpawnBlueprintWithJob(w, kind, orientation, flt, pos) ==
    [w EXCEPT
        !.blueprints = Put(@, w.next_entity, BlueprintNew(kind, orientation, flt, pos)),
        !.construction_jobs = Put(@, w.next_entity + 1, ConstructionJobNew(w.next_entity)),
        !.next_entity = w.next_entity + 2]

\* "Track placement": what a placed wall, floor or other structure writes
TrackPlacement(bm, kind, pos, blueprint_entity) ==
    CASE kind = "Floor" -> [bm EXCEPT !.floors = @ \cup {pos}]
      [] kind = "Wall" -> [bm EXCEPT !.occupied = @ \cup {pos},
                                   !.walls = Put(@, pos, blueprint_entity)]
      [] OTHER -> [bm EXCEPT !.occupied = @ \cup {pos}]

\* The occupancy test of a wall, floor or other single-tile placement
should_skip(bm, pos) == pos \in bm.occupied

\* One tile of a wall or floor drag (handle_building_placement, drag branch)
PlaceDragTile(w, bt, pos) ==
    IF should_skip(w.building_map, pos) THEN w
    ELSE IF ~can_afford(w.money, cost(bt)) THEN w
    ELSE LET paid == [w EXCEPT !.money = deduct(@, cost(bt))]
             spawned == SpawnBlueprintWithJob(paid, bt.kind, "None", bt.floor_type, pos)
         IN [spawned EXCEPT
                !.building_map = TrackPlacement(@, bt.kind, pos, w.next_entity)]

\* The tiles of a drag rectangle, x outermost, as the loops visit them
DragPositions(start, end) ==
    LET min_x == Min(start[1], end[1])
        max_x == Max(start[1], end[1])
        min_y == Min(start[2], end[2])
        max_y == Max(start[2], end[2])
        h == max_y - min_y + 1
        n == (max_x - min_x + 1) * h
    IN [i \in 1 .. n |-> <<min_x + ((i - 1) \div h), min_y + ((i - 1) % h)>>]

RECURSIVE PlaceDrag(_, _, _)
PlaceDrag(w, bt, positions) ==
    IF positions = <<>> THEN w
    ELSE PlaceDrag(PlaceDragTile(w, bt, Head(positions)), bt, Tail(positions))

\* Door placement: both footprint tiles must be free of doors and of anything
\* occupied that is not a wall
DoorTileAvailable(bm, pos) ==
    LET has_wall == pos \in DOMAIN bm.walls
        has_door == pos \in DOMAIN bm.doors
        has_other == pos \in bm.occupied /\ ~has_wall
    IN ~has_door /\ ~has_other

\* "Remove walls that are being replaced" for one tile
RemoveReplacedWall(w, pos) ==
    IF pos \in DOMAIN w.building_map.walls
    THEN LET gone == DespawnEntity(w, w.building_map.walls[pos])
         IN [gone EXCEPT !.building_map.walls = Del(@, pos),
                         !.building_map.occupied = @ \ {pos}]
    ELSE w

RECURSIVE RemoveReplacedWalls(_, _)
RemoveReplacedWalls(w, tiles) ==
    IF tiles = {} THEN w
    ELSE LET t == CHOOSE t \in tiles : TRUE
         IN RemoveReplacedWalls(RemoveReplacedWall(w, t), tiles \ {t})

ReserveDoorTiles(bm, tiles, blueprint_entity) ==
    [bm EXCEPT !.doors = [t \in (DOMAIN @) \cup tiles |->
                            IF t \in tiles THEN blueprint_entity ELSE @[t]]]

PlaceDoor(w, pos, orientation) ==
    LET door_tiles == DoorTiles(pos, orientation)
    IN IF ~(\A t \in door_tiles : DoorTileAvailable(w.building_map, t)) THEN w
       ELSE IF ~can_afford(w.money, cost(DoorType)) THEN w
       ELSE LET paid == [w EXCEPT !.money = deduct(@, cost(DoorType))]
                cleared == RemoveReplacedWalls(paid, door_tiles)
                spawned == SpawnBlueprintWithJob(cleared, "Door", orientation, "None", pos)
            IN [spawned EXCEPT
                   !.building_map = ReserveDoorTiles(@, door_tiles, cleared.next_entity)]

\* A desk test that ignores where the desk stands
has_desk_anywhere(structs, pos) ==
    \E e \in DOMAIN structs :
        structs[e].kind = "Furniture" /\ structs[e].furniture_type = "Desk"

\* The desk test of a reception console: some Desk's 2x2 area holds the tile
has_desk(structs, pos) ==
    \E e \in DOMAIN structs :
        /\ structs[e].kind = "Furniture"
        /\ structs[e].furniture_type = "Desk"
        /\ pos \in {structs[e].pos, Shift(structs[e].pos, 1, 0),
                    Shift(structs[e].pos, 0, 1), Shift(structs[e].pos, 1, 1)}

PlaceReceptionConsole(w, pos, orientation) ==
    IF ~has_desk(w.structures, pos) THEN w
    ELSE IF ~can_afford(w.money, cost(FurnitureOf("ReceptionConsole"))) THEN w
    ELSE [w EXCEPT
            !.money = deduct(@, cost(FurnitureOf("ReceptionConsole"))),
            !.structures = Put(@, w.next_entity,
                StructureNew("Furniture", pos, orientation, "ReceptionConsole", "None")),
            !.next_entity = @ + 1]

\* A variant that is content with one free footprint tile
can_place_partly(bm, tiles) ==
    \E t \in tiles : t \in bm.floors /\ t \notin bm.occupied /\ t \notin DOMAIN bm.doors

\* Regular furniture: every footprint tile has a floor, is not occupied, no door
can_place(bm, tiles) ==
    \A t \in tiles : t \in bm.floors /\ t \notin bm.occupied /\ t \notin DOMAIN bm.doors

PlaceFurniture(w, ft, pos, orientation) ==
    IF ft = "ReceptionConsole" THEN PlaceReceptionConsole(w, pos, orientation)
    ELSE LET furniture_tiles == tiles_occupied(ft, pos, orientation)
         IN IF ~can_place(w.building_map, furniture_tiles) THEN w
            ELSE IF ~can_afford(w.money, cost(FurnitureOf(ft))) THEN w
            ELSE [w EXCEPT
                    !.money = deduct(@, cost(FurnitureOf(ft))),
                    !.structures = Put(@, w.next_entity,
                        StructureNew("Furniture", pos, orientation, ft, "None")),
                    !.next_entity = @ + 1,
                    !.building_map.occupied = @ \cup furniture_tiles]

\* A variant that lets a window replace nothing, a wall included
window_skips_occupied(bm, pos) ==
    pos \in bm.occupied \/ pos \in DOMAIN bm.doors

\* Window placement may replace a wall, but nothing else and no door
window_should_skip(bm, pos) ==
    LET has_wall == pos \in DOMAIN bm.walls
        has_other == pos \in bm.occupied /\ ~has_wall
    IN has_other \/ pos \in DOMAIN bm.doors

\* Single click of a wall, window or floor ("Regular building placement")
PlaceRegular(w, bt, pos) ==
    LET skip == IF bt.kind = "Window" THEN window_should_skip(w.building_map, pos)
                ELSE should_skip(w.building_map, pos)
    IN IF skip THEN w
       ELSE IF ~can_afford(w.money, cost(bt)) THEN w
       ELSE LET paid == [w EXCEPT !.money = deduct(@, cost(bt))]
                cleared == IF bt.kind = "Window" THEN RemoveReplacedWall(paid, pos) ELSE paid
                spawned == SpawnBlueprintWithJob(cleared, bt.kind, "None", bt.floor_type, pos)
            IN [spawned EXCEPT
                   !.building_map = TrackPlacement(@, bt.kind, pos, cleared.next_entity)]

(***************************************************************************)
(* Finished structures: their Transform, and which of them an order to     *)
(* deconstruct can reach.                                                  *)
(***************************************************************************)
\* The door offset of spawn_door_blueprint / complete_blueprints / spawn_door
DoorOffset(orientation) ==
    IF orientation = "Horizontal" THEN <<TILE_SIZE \div 2, 0>> ELSE <<0, TILE_SIZE \div 2>>

Add2(a, b) == <<a[1] + b[1], a[2] + b[2]>>

\* Transform.translation of a blueprint (spawn_blueprint, spawn_door_blueprint)
BlueprintWorldPos(b, gs) ==
    IF b.building_type = "Door"
    THEN Add2(grid_to_world(b.pos, gs), DoorOffset(b.orientation))
    ELSE grid_to_world(b.pos, gs)

\* Transform.translation of a finished structure
StructureWorldPos(s, gs) ==
    CASE s.kind = "Door" -> Add2(grid_to_world(s.pos, gs), DoorOffset(s.orientation))
      [] s.kind = "Furniture" /\ s.furniture_type # "ReceptionConsole" ->
            LET d == oriented_dimensions(s.furniture_type, s.orientation)
            IN Add2(grid_to_world(s.pos, gs),
                    <<((d[1] - 1) * TILE_SIZE) \div 2, ((d[2] - 1) * TILE_SIZE) \div 2>>)
      [] OTHER -> grid_to_world(s.pos, gs)

\* Or<(With<Wall>, With<Door>, With<Window>, With<Furniture>)>
Deconstructible(structs) ==
    {e \in DOMAIN structs : structs[e].kind \in {"Wall", "Door", "Window", "Furniture"}}

\* A variant that finds no marker
never_marked(ms, e) == FALSE

already_marked(ms, e) == \E m \in DOMAIN ms : ms[m].target_entity = e

(***************************************************************************)
(* Deconstruction orders.  DeconstructionMarker and DeconstructionJob are  *)
(* declared outside the files at hand; their constructors follow the       *)
(* description: a marker starts with no work done and a fixed amount of    *)
(* work required, a job starts unassigned.                                 *)
(***************************************************************************)
DECONSTRUCTION_WORK_REQUIRED == 40

DeconstructionMarkerNew(target, pos, world_pos) ==
    [target_entity |-> target, pos |-> pos, world_pos |-> world_pos,
     work_required |-> DECONSTRUCTION_WORK_REQUIRED, work_done |-> 0]

DeconstructionJobNew(marker) == [marker |-> marker, assigned_pawn |-> NoEntity]

\* The part of the world a deconstruction order writes
Orders == [markers |-> markers, deconstruction_jobs |-> deconstruction_jobs,
           next_entity |-> next_entity]

\* commands.spawn((.., DeconstructionMarker::new(entity), GridPosition)) and
\* commands.spawn(DeconstructionJob::new(marker_entity))
SpawnMarkerWithJob(o, structs, gs, e) ==
    [o EXCEPT
        !.markers = Put(@, o.next_entity,
            DeconstructionMarkerNew(e, structs[e].pos, StructureWorldPos(structs[e], gs))),
        !.deconstruction_jobs = Put(@, o.next_entity + 1, DeconstructionJobNew(o.next_entity)),
        !.next_entity = o.next_entity + 2]

\* The entities a drag may mark at one tile: the first entity the query yields
\* at the tile that no marker targets yet; the query's order is not fixed
MarkCandidates(structs, ms, pos) ==
    {e \in Deconstructible(structs) : structs[e].pos = pos /\ ~already_marked(ms, e)}

\* All ways a drag over the positions picks its targets, in visiting order
RECURSIVE MarkChoices(_, _, _)
MarkChoices(structs, ms, positions) ==
    IF positions = <<>> THEN {<<>>}
    ELSE LET here == MarkCandidates(structs, ms, Head(positions))
             rest == MarkChoices(structs, ms, Tail(positions))
         IN IF here = {} THEN rest
            ELSE {<<e>> \o r : e \in here, r \in rest}

RECURSIVE MarkAll(_, _, _, _)
MarkAll(o, structs, gs, targets) ==
    IF targets = <<>> THEN o
    ELSE MarkAll(SpawnMarkerWithJob(o, structs, gs, Head(targets)), structs, gs, Tail(targets))

\* handle_context_menu_clicks on the Deconstruct button with the given target
MarkByMenu(o, structs, gs, target) ==
    IF already_marked(o.markers, target) THEN o
    ELSE IF target \notin Deconstructible(structs) THEN o
    ELSE SpawnMarkerWithJob(o, structs, gs, target)

(***************************************************************************)
(* Worker priority table (components/work_assignment.rs).                  *)
(***************************************************************************)
DISABLED == 0
NORMAL == 3
U8_MAX == 255

is_enabled(n) == n > 0

\* u8::saturating_sub(1)
saturating_sub_1(n) == IF n = 0 THEN 0 ELSE n - 1

\* A variant that counts past 4 instead of wrapping to disabled
increase_without_wrap(n) == IF n = 0 THEN 0 ELSE (n + 1) % (U8_MAX + 1)

decrease_towards_highest(n) ==
    CASE n = 0 -> 1
      [] n = 1 -> 1
      [] OTHER -> saturating_sub_1(n)

\* self.0 + 1 on a u8 (release build arithmetic)
increase_towards_disabled(n) ==
    CASE n = 0 -> 0
      [] n = 4 -> 0
      [] OTHER -> (n + 1) % (U8_MAX + 1)

\* WorkAssignments::default
DefaultWorkAssignments ==
    [wt \in WorkTypes |-> IF wt = "Construction" THEN NORMAL ELSE DISABLED]

get_priority(table, wt) == IF wt \in DOMAIN table THEN table[wt] ELSE DISABLED

set_priority(table, wt, n) == Put(table, wt, n)

decrease_priority(table, wt) ==
    set_priority(table, wt, decrease_towards_highest(get_priority(table, wt)))

increase_priority(table, wt) ==
    set_priority(table, wt, increase_towards_disabled(get_priority(table, wt)))

\* A variant that keeps work of rank 3 and 4 for later
can_do_urgent_work(table, wt) == get_priority(table, wt) \in {1, 2}

\* A variant that lets every worker do every kind of work
can_do_any_work(table, wt) == TRUE

can_do_work(table, wt) == is_enabled(get_priority(table, wt))

\* Iterator::filter
RECURSIVE Filter(_, _)
Filter(table, s) ==
    IF s = <<>> THEN <<>>
    ELSE IF can_do_work(table, Head(s)) THEN <<Head(s)>> \o Filter(table, Tail(s))
    ELSE Filter(table, Tail(s))

\* A variant in which a later element with an equal key replaces the minimum
RECURSIVE MinByKeyLast(_, _, _)
MinByKeyLast(table, best, s) ==
    IF s = <<>> THEN best
    ELSE IF get_priority(table, Head(s)) <= get_priority(table, best)
         THEN MinByKeyLast(table, Head(s), Tail(s))
         ELSE MinByKeyLast(table, best, Tail(s))

\* Iterator::min_by_key: a later element replaces the minimum only if its key
\* is strictly smaller, so the first minimum is returned
RECURSIVE MinByKey(_, _, _)
MinByKey(table, best, s) ==
    IF s = <<>> THEN best
    ELSE IF get_priority(table, Head(s)) < get_priority(table, best)
         THEN MinByKey(table, Head(s), Tail(s))
         ELSE MinByKey(table, best, Tail(s))

NoWork == "None"

get_highest_priority_work(table, available_work_types) ==
    LET enabled == Filter(table, available_work_types)
    IN IF enabled = <<>> THEN NoWork
       ELSE MinByKey(table, Head(enabled), Tail(enabled))

(***************************************************************************)
(* Pawns (systems/pawn.rs).                                                *)
(***************************************************************************)
PAWN_SIZE == 2 * TILE_SIZE

\* spawn_initial_pawns: worker i stands at ((i - 1) * PAWN_SIZE * 1.5, 0)
InitialPawn(i) ==
    [pos |-> <<((i - 1) * PAWN_SIZE * 3) \div 2, 0>>,
     current_job |-> NoEntity,
     target |-> NoTarget,
     staffing |-> NoEntity,
     priorities |-> DefaultWorkAssignments]

(***************************************************************************)
(* The scheduler (systems/work.rs).  A pass visits the idle pawns in the   *)
(* query's order, which the engine does not fix; each pawn takes the       *)
(* nearest job nobody holds, and among equally near jobs the one the job   *)
(* query yields first.  AssignOutcomes is the set of results of a pass.    *)
(* where[j] is the world position of the blueprint or marker of job j, for *)
(* the jobs whose blueprint or marker still exists.                        *)
(***************************************************************************)
VisitOrders(S) ==
    {s \in [1 .. Cardinality(S) -> S] : \A i, j \in DOMAIN s : i # j => s[i] # s[j]}

\* A search that takes any job nobody holds
OpenJobs(jobs, where, pawn_pos) ==
    {j \in DOMAIN where : jobs[j].assigned_pawn = NoEntity}

\* A nearest-job search that does not skip the jobs somebody holds
NearestJobsHeldToo(jobs, where, pawn_pos) ==
    {j \in DOMAIN where :
        \A k \in DOMAIN where : DistSq(pawn_pos, where[j]) <= DistSq(pawn_pos, where[k])}

NearestJobs(jobs, where, pawn_pos) ==
    LET open == {j \in DOMAIN where : jobs[j].assigned_pawn = NoEntity}
    IN {j \in open : \A k \in open : DistSq(pawn_pos, where[j]) <= DistSq(pawn_pos, where[k])}

\* The inner loop of an assignment pass over the job query in the order scan:
\* a job somebody holds or whose blueprint or marker is gone is passed over,
\* and a job replaces nearest_job only when it is strictly nearer
RECURSIVE ScanJobs(_, _, _, _, _)
ScanJobs(scan, nearest_job, jobs, where, pawn_pos) ==
    IF scan = <<>> THEN nearest_job
    ELSE LET job_entity == Head(scan)
         IN IF jobs[job_entity].assigned_pawn # NoEntity
            THEN ScanJobs(Tail(scan), nearest_job, jobs, where, pawn_pos)
            ELSE IF job_entity \notin DOMAIN where
            THEN ScanJobs(Tail(scan), nearest_job, jobs, where, pawn_pos)
            ELSE IF \/ nearest_job = NoEntity
                    \/ DistSq(pawn_pos, where[job_entity]) < DistSq(pawn_pos, where[nearest_job])
            THEN ScanJobs(Tail(scan), job_entity, jobs, where, pawn_pos)
            ELSE ScanJobs(Tail(scan), nearest_job, jobs, where, pawn_pos)

RECURSIVE AssignOutcomes(_, _, _, _)
AssignOutcomes(order, jobs, ps, where) ==
    IF order = <<>> THEN {[jobs |-> jobs, pawns |-> ps]}
    ELSE LET p == Head(order)
             skip == AssignOutcomes(Tail(order), jobs, ps, where)
         IN IF ps[p].current_job # NoEntity THEN skip
            ELSE IF ~can_do_work(ps[p].priorities, "Construction") THEN skip
            ELSE LET nearest == NearestJobs(jobs, where, ps[p].pos)
                 IN IF nearest = {} THEN skip
                    ELSE UNION {AssignOutcomes(Tail(order),
                                    [jobs EXCEPT ![j].assigned_pawn = p],
                                    [ps EXCEPT ![p].current_job = j,
                                               ![p].target = where[j]],
                                    where) : j \in nearest}

\* grid_to_world of the blueprint of each construction job whose blueprint exists
ConstructionTargets(jobs, bps, gs) ==
    [j \in {k \in DOMAIN jobs : jobs[k].blueprint \in DOMAIN bps} |->
        grid_to_world(bps[jobs[j].blueprint].pos, gs)]

\* grid_to_world of the marker of each deconstruction job whose marker exists
DeconstructionTargets(jobs, ms, gs) ==
    [j \in {k \in DOMAIN jobs : jobs[k].marker \in DOMAIN ms} |->
        grid_to_world(ms[jobs[j].marker].pos, gs)]

(***************************************************************************)
(* Movement (systems/pawn.rs, move_pawns).  Positions are whole pixels:    *)
(* a partial step is rounded down to the pixel grid.                       *)
(***************************************************************************)
ISqrt(n) == CHOOSE r \in 0 .. n : r * r <= n /\ (r + 1) * (r + 1) > n

MovePawn(pawn, dt) ==
    IF pawn.target = NoTarget THEN pawn
    ELSE LET d2 == DistSq(pawn.pos, pawn.target)
             step == PAWN_MOVE_SPEED * dt
         IN IF d2 > 1
            THEN IF step * step < d2
                 THEN LET dist == ISqrt(d2)
                      IN [pawn EXCEPT !.pos =
                            << @[1] + ((pawn.target[1] - @[1]) * step) \div dist,
                               @[2] + ((pawn.target[2] - @[2]) * step) \div dist >>]
                 ELSE [pawn EXCEPT !.pos = pawn.target]
            ELSE pawn

(***************************************************************************)
(* Work ticks (systems/work.rs).                                           *)
(***************************************************************************)
\* A variant that lets a worker add work from any distance
InRangeAnywhere(a, b) == DistSq(a, b) >= 0

\* distance < TILE_SIZE * 3.0
InRange(a, b) ==
    DistSq(a, b) < (TILE_SIZE * INTERACTION_TILES) * (TILE_SIZE * INTERACTION_TILES)

\* A tick of work without the clamp to work_required
AddWorkUnclamped(b, speed, dt) ==
    [b EXCEPT !.work_done = b.work_done + speed * dt]

\* A tick of work that adds the same amount whatever the frame time
AddWorkPerFrame(b, speed, dt) ==
    [b EXCEPT !.work_done = Min(b.work_done + speed, b.work_required)]

\* blueprint.work_done += work_speed * dt; work_done = work_done.min(work_required)
AddWork(b, speed, dt) ==
    [b EXCEPT !.work_done = Min(b.work_done + speed * dt, b.work_required)]

\* A variant that lets only a worker with Construction enabled add work
WorkedBlueprintIfEnabled(pawn, jobs, bps, gs) ==
    IF /\ can_do_work(pawn.priorities, "Construction")
       /\ pawn.current_job # NoEntity
       /\ pawn.current_job \in DOMAIN jobs
       /\ jobs[pawn.current_job].blueprint \in DOMAIN bps
       /\ InRange(pawn.pos, BlueprintWorldPos(bps[jobs[pawn.current_job].blueprint], gs))
    THEN jobs[pawn.current_job].blueprint
    ELSE NoEntity

\* The blueprint a pawn's tick of work_on_blueprints reaches, or NoEntity
WorkedBlueprint(pawn, jobs, bps, gs) ==
    IF /\ pawn.current_job # NoEntity
       /\ pawn.current_job \in DOMAIN jobs
       /\ jobs[pawn.current_job].blueprint \in DOMAIN bps
       /\ InRange(pawn.pos, BlueprintWorldPos(bps[jobs[pawn.current_job].blueprint], gs))
    THEN jobs[pawn.current_job].blueprint
    ELSE NoEntity

\* The marker a pawn's tick of work_on_deconstruction reaches, or NoEntity
WorkedMarker(pawn, jobs, ms) ==
    IF /\ pawn.current_job # NoEntity
       /\ pawn.current_job \in DOMAIN jobs
       /\ jobs[pawn.current_job].marker \in DOMAIN ms
       /\ InRange(pawn.pos, ms[jobs[pawn.current_job].marker].world_pos)
    THEN jobs[pawn.current_job].marker
    ELSE NoEntity

\* One pass of the pawn loop over the pawns in order: items are the blueprints
\* or the markers, reached[p] the item pawn p works on
RECURSIVE WorkPass(_, _, _, _, _)
WorkPass(order, items, reached, speed, dt) ==
    IF order = <<>> THEN items
    ELSE LET b == reached[Head(order)]
         IN WorkPass(Tail(order),
                     IF b = NoEntity THEN items
                     ELSE [items EXCEPT ![b] = AddWork(@, speed, dt)],
                     reached, speed, dt)

\* commands.entity(pawn_entity).remove::<MovementTarget>()
StopWorkers(ps, reached) ==
    [p \in DOMAIN ps |-> IF reached[p] = NoEntity THEN ps[p]
                         ELSE [ps[p] EXCEPT !.target = NoTarget]]

(***************************************************************************)
(* Completion (systems/work.rs).                                           *)
(***************************************************************************)
\* "Clear pawn's current job" for every job of the finished items
ClearPawns(ps, jobs, done_jobs) ==
    [p \in DOMAIN ps |->
        IF \E j \in done_jobs : jobs[j].assigned_pawn = p
        THEN [ps[p] EXCEPT !.current_job = NoEntity]
        ELSE ps[p]]

\* The structure a finished blueprint turns into
BuiltStructure(b) ==
    StructureNew(b.building_type, b.pos, b.orientation, "None", b.floor_type)

\* A variant that leaves the BuildingMap as the placement wrote it
CompleteBlueprintUntracked(w, b) ==
    LET bp == w.blueprints[b]
        gone == [w EXCEPT !.blueprints = Del(@, b)]
    IN IF bp.building_type = "Furniture" THEN gone
       ELSE [gone EXCEPT !.structures = Put(@, w.next_entity, BuiltStructure(bp)),
                         !.next_entity = @ + 1]

\* complete_blueprints for one finished blueprint
CompleteBlueprint(w, b) ==
    LET bp == w.blueprints[b]
        gone == [w EXCEPT !.blueprints = Del(@, b)]
    IN IF bp.building_type = "Furniture" THEN gone
       ELSE LET built == [gone EXCEPT
                            !.structures = Put(@, w.next_entity, BuiltStructure(bp)),
                            !.next_entity = @ + 1]
            IN IF bp.building_type = "Wall"
               THEN [built EXCEPT !.building_map.walls = Put(@, bp.pos, w.next_entity)]
               ELSE built

RECURSIVE CompleteBlueprints(_, _)
CompleteBlueprints(w, done) ==
    IF done = <<>> THEN w
    ELSE CompleteBlueprints(CompleteBlueprint(w, Head(done)), Tail(done))

\* A variant that treats every target as a single-tile structure
ReleaseBaseTile(bm, structs, marker) ==
    [bm EXCEPT !.occupied = @ \ {marker.pos}]

\* The BuildingMap update of complete_deconstruction for one finished marker;
\* structs is the world the queries see, before any despawn of this pass
ReleaseTiles(bm, structs, marker) ==
    LET t == marker.target_entity
        pos == marker.pos
    IN IF t \in DOMAIN structs /\ structs[t].kind = "Wall"
       THEN [bm EXCEPT !.walls = Del(@, pos), !.occupied = @ \ {pos}]
       ELSE IF t \in DOMAIN structs /\ structs[t].kind = "Door"
       THEN [bm EXCEPT !.doors = DelAll(@, DoorTiles(pos, structs[t].orientation))]
       ELSE IF t \in DOMAIN structs /\ structs[t].kind = "Furniture"
       THEN [bm EXCEPT !.occupied =
                @ \ {Shift(pos, x, y) : x \in 0 .. 1, y \in 0 .. 1}]
       ELSE [bm EXCEPT !.occupied = @ \ {pos}]

RECURSIVE ReleaseAll(_, _, _, _)
ReleaseAll(bm, structs, ms, done) ==
    IF done = <<>> THEN bm
    ELSE ReleaseAll(ReleaseTiles(bm, structs, ms[Head(done)]), structs, ms, Tail(done))

(***************************************************************************)
(* Snapshots (systems/save_load.rs).  SaveData holds four lists.           *)
(***************************************************************************)
EmptySave == [walls |-> <<>>, floors |-> <<>>, doors |-> <<>>, furniture |-> <<>>]

\* The (x, y) order of GridPoint and of the sort keys
PosLeq(a, b) == a[1] < b[1] \/ (a[1] = b[1] /\ a[2] <= b[2])

\* Insertion into a list sorted by position, after the entries with an equal
\* key: a stable sort
RECURSIVE InsertSorted(_, _)
InsertSorted(s, x) ==
    IF s = <<>> THEN <<x>>
    ELSE IF PosLeq(Head(s).position, x.position) THEN <<Head(s)>> \o InsertSorted(Tail(s), x)
    ELSE <<x>> \o s

\* sort_by_key(|entry| (entry.position.x, entry.position.y))
RECURSIVE SortByPosition(_)
SortByPosition(s) ==
    IF s = <<>> THEN <<>>
    ELSE InsertSorted(SortByPosition(SubSeq(s, 1, Len(s) - 1)), s[Len(s)])

\* Vec<GridPoint>::sort
SortPoints(s) ==
    LET sorted == SortByPosition([i \in DOMAIN s |-> [position |-> s[i]]])
    IN [i \in DOMAIN sorted |-> sorted[i].position]

\* A variant that leaves the lists as collected
sort_save_data_skipped(data) == data

sort_save_data(data) ==
    [walls |-> SortPoints(data.walls),
     floors |-> SortByPosition(data.floors),
     doors |-> SortByPosition(data.doors),
     furniture |-> SortByPosition(data.furniture)]

\* The entities of one kind in the order a query yields them (here by id)
OfKind(structs, kind) == SetToSeq({e \in DOMAIN structs : structs[e].kind = kind})

collect_save_data(structs) ==
    LET walls == OfKind(structs, "Wall")
        floors == OfKind(structs, "Floor")
        doors == OfKind(structs, "Door")
        furniture == OfKind(structs, "Furniture")
    IN [walls |-> [i \in DOMAIN walls |-> structs[walls[i]].pos],
        floors |-> [i \in DOMAIN floors |->
                      [position |-> structs[floors[i]].pos,
                       floor_type |-> structs[floors[i]].floor_type]],
        doors |-> [i \in DOMAIN doors |->
                      [position |-> structs[doors[i]].pos,
                       orientation |-> structs[doors[i]].orientation]],
        furniture |-> [i \in DOMAIN furniture |->
                      [position |-> structs[furniture[i]].pos,
                       furniture_type |-> structs[furniture[i]].furniture_type,
                       orientation |-> structs[furniture[i]].orientation]]]

\* clear_structures: walls, floors, doors and furniture are despawned; a
\* Window entity is in none of the queries and stays
clear_structures(structs) ==
    [e \in {x \in DOMAIN structs : structs[x].kind = "Window"} |-> structs[e]]

\* A variant that spawns onto the BuildingMap as it is
LoadedOnto(structs, first_entity) ==
    [building_map |-> building_map, structures |-> structs, next_entity |-> first_entity]

\* The part of the world apply_save_data writes, with the BuildingMap reset
Loaded(structs, first_entity) ==
    [building_map |-> EmptyBuildingMap, structures |-> structs, next_entity |-> first_entity]

spawn_floor(l, floor) ==
    [l EXCEPT
        !.structures = Put(@, l.next_entity,
            StructureNew("Floor", floor.position, "None", "None", floor.floor_type)),
        !.next_entity = @ + 1,
        !.building_map.floors = @ \cup {floor.position}]

spawn_wall(l, pos) ==
    [l EXCEPT
        !.structures = Put(@, l.next_entity, StructureNew("Wall", pos, "None", "None", "None")),
        !.next_entity = @ + 1,
        !.building_map.occupied = @ \cup {pos},
        !.building_map.walls = Put(@, pos, l.next_entity)]

spawn_door(l, door) ==
    [l EXCEPT
        !.structures = Put(@, l.next_entity,
            StructureNew("Door", door.position, door.orientation, "None", "None")),
        !.next_entity = @ + 1,
        !.building_map = ReserveDoorTiles(@, DoorTiles(door.position, door.orientation),
                                          l.next_entity)]

spawn_furniture(l, f) ==
    [l EXCEPT
        !.structures = Put(@, l.next_entity,
            StructureNew("Furniture", f.position, f.orientation, f.furniture_type, "None")),
        !.next_entity = @ + 1,
        !.building_map.occupied =
            @ \cup tiles_occupied(f.furniture_type, f.position, f.orientation)]

SpawnEntry(l, kind, entry) ==
    CASE kind = "Floor" -> spawn_floor(l, entry)
      [] kind = "Wall" -> spawn_wall(l, entry)
      [] kind = "Door" -> spawn_door(l, entry)
      [] kind = "Furniture" -> spawn_furniture(l, entry)

RECURSIVE SpawnEach(_, _, _)
SpawnEach(l, kind, entries) ==
    IF entries = <<>> THEN l
    ELSE SpawnEach(SpawnEntry(l, kind, Head(entries)), kind, Tail(entries))

apply_save_data(structs, first_entity, data) ==
    LET floors == SpawnEach(Loaded(structs, first_entity), "Floor", data.floors)
        walls == SpawnEach(floors, "Wall", data.walls)
        doors == SpawnEach(walls, "Door", data.doors)
    IN SpawnEach(doors, "Furniture", data.furniture)

(***************************************************************************)
(* History variables.                                                      *)
(***************************************************************************)
NoCall == [op |-> "none"]

\* Membership of a tile in the four sets of the BuildingMap
Membership(bm, pos) ==
    [occupied |-> pos \in bm.occupied, walls |-> pos \in DOMAIN bm.walls,
     doors |-> pos \in DOMAIN bm.doors, floors |-> pos \in bm.floors]

\* No frame is followed
NoFrame == [on |-> FALSE]

\* The start of a frame: no system has run, no worker was given anything
NewFrame == [on |-> TRUE, ran |-> {}, in_order |-> TRUE, passes |-> <<>>,
             assigned |-> [p \in DOMAIN pawns |-> 0]]

\* The phase of a tick a system belongs to; 0 for the systems of no phase
Phase(system) ==
    CASE system \in {"handle_building_placement", "handle_deconstruction_placement",
                     "handle_context_menu_clicks"} -> 1
      [] system \in {"assign_jobs_to_pawns", "assign_deconstruction_jobs_to_pawns",
                     "assign_reception_staff"} -> 2
      [] system \in {"work_on_blueprints", "work_on_deconstruction"} -> 3
      [] system \in {"complete_blueprints", "complete_deconstruction"} -> 4
      [] system \in {"detect_rooms", "auto_assign_bedroom_zones"} -> 5
      [] OTHER -> 0

\* frame after the system has run: whether it ran after a system of a later
\* phase, the assignment passes in the order they ran, and for each worker
\* the number of jobs and desks it was given in this frame
FrameAfter(system) ==
    IF ~frame.on THEN frame
    ELSE [on |-> TRUE,
          ran |-> frame.ran \cup {system},
          in_order |-> /\ frame.in_order
                       /\ Phase(system) # 0 =>
                              \A earlier \in frame.ran : Phase(earlier) <= Phase(system),
          passes |-> IF Phase(system) = 2 THEN Append(frame.passes, system)
                     ELSE frame.passes,
          assigned |-> [p \in DOMAIN pawns |->
                          frame.assigned[p]
                          + (IF /\ pawns'[p].current_job # pawns[p].current_job
                                /\ pawns'[p].current_job # NoEntity THEN 1 ELSE 0)
                          + (IF /\ pawns'[p].staffing # pawns[p].staffing
                                /\ pawns'[p].staffing # NoEntity THEN 1 ELSE 0)]]

\* The tiles in each of the four sets of a BuildingMap
Positions(bm) ==
    [occupied |-> bm.occupied, walls |-> DOMAIN bm.walls,
     doors |-> DOMAIN bm.doors, floors |-> bm.floors]

\* The tiles a snapshot stands for: its wall and floor positions, the two
\* footprint tiles of each of its doors, and for occupied its wall positions
\* and the footprints of its furniture
SnapshotPositions(data) ==
    LET wall_tiles == {data.walls[i] : i \in DOMAIN data.walls}
    IN [occupied |-> wall_tiles \cup
                     UNION {tiles_occupied(data.furniture[i].furniture_type,
                                           data.furniture[i].position,
                                           data.furniture[i].orientation) :
                                i \in DOMAIN data.furniture},
        walls |-> wall_tiles,
        doors |-> UNION {DoorTiles(data.doors[i].position, data.doors[i].orientation) :
                            i \in DOMAIN data.doors},
        floors |-> {data.floors[i].position : i \in DOMAIN data.floors}]

\* A deconstruction request covering the targets: those of them that were
\* marked already, and the markers and jobs the request made for those
MarkCall(targets) ==
    LET again == {e \in targets : already_marked(markers, e)}
    IN [op |-> "mark",
        again |-> again,
        new_markers |-> {m \in DOMAIN markers' \ DOMAIN markers :
                            markers'[m].target_entity \in again},
        new_jobs |-> {j \in DOMAIN deconstruction_jobs' \ DOMAIN deconstruction_jobs :
                         markers'[deconstruction_jobs'[j].marker].target_entity \in again}]

NoRoundTrip == [stage |-> "idle"]

\* detect_ran after a step that may have written the BuildingMap
DetectRanAfter == detect_ran /\ building_map' = building_map

\* elapsed after a work tick: the blueprints in worked gained dt of work
ElapsedAfter(worked, dt) ==
    [b \in DOMAIN blueprints' |->
        IF b \notin DOMAIN elapsed THEN 0
        ELSE IF b \in worked THEN Min(elapsed[b] + dt, MaxElapsed)
        ELSE elapsed[b]]

\* The wall round trip: a single wall placed at a tile, that blueprint
\* completed, that wall marked, that marker completed.  A snapshot load, or
\* any other step that changes the tile's membership, ends the observation.
TrackRoundTrip ==
    LET rt == round_trip
        new_bps == {b \in DOMAIN blueprints' \ DOMAIN blueprints :
                        blueprints'[b].building_type = "Wall"}
        loading == load_pending /\ ~load_pending'
    IN CASE loading -> IF rt.stage = "idle" THEN rt ELSE [stage |-> "void"]
         [] ~loading /\ rt.stage = "idle" ->
              IF Cardinality(new_bps) = 1
              THEN LET b == CHOOSE x \in new_bps : TRUE
                   IN [stage |-> "placed", tile |-> blueprints'[b].pos, entity |-> b,
                       before |-> Membership(building_map, blueprints'[b].pos)]
              ELSE rt
         [] ~loading /\ rt.stage = "placed" ->
              IF rt.entity \notin DOMAIN blueprints'
              THEN IF /\ rt.tile \in DOMAIN building_map'.walls
                      /\ building_map'.walls[rt.tile] \in DOMAIN structures' \ DOMAIN structures
                   THEN [rt EXCEPT !.stage = "built", !.entity = building_map'.walls[rt.tile]]
                   ELSE [stage |-> "void"]
              ELSE IF Membership(building_map', rt.tile) # Membership(building_map, rt.tile)
                   THEN [stage |-> "void"] ELSE rt
         [] ~loading /\ rt.stage = "built" ->
              IF rt.entity \notin DOMAIN structures' THEN [stage |-> "void"]
              ELSE IF Membership(building_map', rt.tile) # Membership(building_map, rt.tile)
                   THEN [stage |-> "void"]
              ELSE IF \E m \in DOMAIN markers' : markers'[m].target_entity = rt.entity
                   THEN [rt EXCEPT !.stage = "marked"]
                   ELSE rt
         [] ~loading /\ rt.stage = "marked" ->
              IF rt.entity \notin DOMAIN structures'
              THEN IF \E m \in DOMAIN markers \ DOMAIN markers' :
                        markers[m].target_entity = rt.entity /\ is_complete(markers[m])
                   THEN [rt EXCEPT !.stage = "done",
                                   !.entity = NoEntity]
                   ELSE [stage |-> "void"]
              ELSE IF Membership(building_map', rt.tile) # Membership(building_map, rt.tile)
                   THEN [stage |-> "void"] ELSE rt
         [] ~loading /\ rt.stage = "done" ->
              IF Membership(building_map', rt.tile) # Membership(building_map, rt.tile)
              THEN [stage |-> "void"] ELSE rt
         [] OTHER -> rt

(***************************************************************************)
(* Player requests.  Each request uses up one of the requests explored.    *)
(***************************************************************************)
PlayerRequest == requests > 0 /\ requests' = requests - 1

InstallWorld(w) ==
    /\ building_map' = w.building_map
    /\ money' = w.money
    /\ blueprints' = w.blueprints
    /\ construction_jobs' = w.construction_jobs
    /\ structures' = w.structures
    /\ next_entity' = w.next_entity

InstallOrders(o) ==
    /\ markers' = o.markers
    /\ deconstruction_jobs' = o.deconstruction_jobs
    /\ next_entity' = o.next_entity

\* The number of tiles a placement request asks to build on
RequestTiles(bt, start, end) ==
    IF bt.kind \in {"Wall", "Floor"} THEN Len(DragPositions(start, end)) ELSE 1

\* handle_building_placement with the given tool selected
handle_building_placement(bt, start, end, orientation) ==
    /\ PlayerRequest
    /\ InstallWorld(CASE bt.kind \in {"Wall", "Floor"} ->
                            PlaceDrag(World, bt, DragPositions(start, end))
                      [] bt.kind = "Door" -> PlaceDoor(World, end, orientation)
                      [] bt.kind = "Furniture" ->
                            PlaceFurniture(World, bt.furniture_type, end, orientation)
                      [] OTHER -> PlaceRegular(World, bt, end))
    /\ last_call' = IF bt.kind = "Furniture" /\ bt.furniture_type = "ReceptionConsole"
                     THEN [op |-> "console", pos |-> end]
                     ELSE IF cost(bt) * RequestTiles(bt, start, end) > money
                     THEN [op |-> "unaffordable", bt |-> bt, start |-> start, end |-> end]
                     ELSE NoCall
    /\ UNCHANGED <<grid_settings, markers, deconstruction_jobs, pawns, rooms, zones,
                   wall_changed, save_file, load_pending>>
    /\ elapsed' = ElapsedAfter({}, 0)
    /\ round_trip' = TrackRoundTrip
    /\ detect_ran' = DetectRanAfter
    /\ frame' = FrameAfter("handle_building_placement")

\* handle_deconstruction_placement at the end of a drag
handle_deconstruction_placement(start, end) ==
    /\ PlayerRequest
    /\ \E targets \in MarkChoices(structures, markers, DragPositions(start, end)) :
          InstallOrders(MarkAll(Orders, structures, grid_settings, targets))
    /\ last_call' = MarkCall({e \in Deconstructible(structures) :
                                \E i \in DOMAIN DragPositions(start, end) :
                                    structures[e].pos = DragPositions(start, end)[i]})
    /\ UNCHANGED <<grid_settings, building_map, money, blueprints, construction_jobs,
                   structures, pawns, rooms, zones, wall_changed, save_file,
                   load_pending, elapsed>>
    /\ round_trip' = TrackRoundTrip
    /\ UNCHANGED detect_ran
    /\ frame' = FrameAfter("handle_deconstruction_placement")

\* handle_context_menu_clicks: Deconstruct pressed with the entity as target
handle_context_menu_clicks(target) ==
    /\ PlayerRequest
    /\ InstallOrders(MarkByMenu(Orders, structures, grid_settings, target))
    /\ last_call' = MarkCall({target})
    /\ UNCHANGED <<grid_settings, building_map, money, blueprints, construction_jobs,
                   structures, pawns, rooms, zones, wall_changed, save_file,
                   load_pending, elapsed>>
    /\ round_trip' = TrackRoundTrip
    /\ UNCHANGED detect_ran
    /\ frame' = FrameAfter("handle_context_menu_clicks")

\* handle_cell_clicks of the work assignment table
handle_cell_clicks(p, wt, shift_pressed) ==
    /\ PlayerRequest
    /\ p \in DOMAIN pawns
    /\ pawns' = [pawns EXCEPT ![p].priorities =
                    IF shift_pressed THEN increase_priority(@, wt)
                    ELSE decrease_priority(@, wt)]
    /\ last_call' = [op |-> IF shift_pressed THEN "increase_priority"
                            ELSE "decrease_priority",
                     before |-> get_priority(pawns[p].priorities, wt),
                     after |-> get_priority(pawns'[p].priorities, wt)]
    /\ UNCHANGED <<grid_settings, building_map, money, blueprints, construction_jobs,
                   structures, markers, deconstruction_jobs, rooms, zones, wall_changed,
                   next_entity, save_file, load_pending, elapsed, round_trip, detect_ran>>
    /\ frame' = FrameAfter("handle_cell_clicks")

(***************************************************************************)
(* The systems of WorkPlugin and PawnPlugin, one action each.  dt is the   *)
(* frame time in tenths of a second.                                       *)
(***************************************************************************)
assign_jobs_to_pawns ==
    /\ \E order \in VisitOrders(DOMAIN pawns) :
       \E out \in AssignOutcomes(order, construction_jobs, pawns,
                     ConstructionTargets(construction_jobs, blueprints, grid_settings)) :
          /\ construction_jobs' = out.jobs
          /\ pawns' = out.pawns
    /\ UNCHANGED <<grid_settings, building_map, money, blueprints, structures, markers,
                   deconstruction_jobs, rooms, zones, wall_changed, next_entity,
                   save_file, load_pending, requests, elapsed, round_trip, detect_ran,
                   last_call>>
    /\ frame' = FrameAfter("assign_jobs_to_pawns")

assign_deconstruction_jobs_to_pawns ==
    /\ \E order \in VisitOrders(DOMAIN pawns) :
       \E out \in AssignOutcomes(order, deconstruction_jobs, pawns,
                     DeconstructionTargets(deconstruction_jobs, markers, grid_settings)) :
          /\ deconstruction_jobs' = out.jobs
          /\ pawns' = out.pawns
    /\ UNCHANGED <<grid_settings, building_map, money, blueprints, construction_jobs,
                   structures, markers, rooms, zones, wall_changed, next_entity,
                   save_file, load_pending, requests, elapsed, round_trip, detect_ran,
                   last_call>>
    /\ frame' = FrameAfter("assign_deconstruction_jobs_to_pawns")

\* Entities with the ReceptionConsole component
ReceptionConsoles(structs) ==
    {e \in DOMAIN structs : /\ structs[e].kind = "Furniture"
                            /\ structs[e].furniture_type = "ReceptionConsole"}

\* A variant that takes every desk for unstaffed
is_staffed_never(ps, console_entity) == FALSE

\* staffed_query.iter().any(|staffing| staffing.desk_entity == console_entity)
is_staffed(ps, console_entity) ==
    \E p \in DOMAIN ps : ps[p].staffing = console_entity

\* The pawn the inner loop of assign_reception_staff stops at: the first of
\* the query Without<StaffingReception> that is idle and does reception work
RECURSIVE FirstReceptionist(_, _)
FirstReceptionist(order, ps) ==
    IF order = <<>> THEN NoEntity
    ELSE LET p == Head(order)
         IN IF ps[p].staffing # NoEntity THEN FirstReceptionist(Tail(order), ps)
            ELSE IF ps[p].current_job # NoEntity THEN FirstReceptionist(Tail(order), ps)
            ELSE IF ~can_do_work(ps[p].priorities, "Reception")
                 THEN FirstReceptionist(Tail(order), ps)
            ELSE p

\* The outer loop of assign_reception_staff with its commands applied in the
\* order they were issued.  before is the world the queries read: the
\* commands are deferred, so every desk sees the same pawns.
RECURSIVE StaffDesks(_, _, _, _, _, _)
StaffDesks(consoles, pawn_order, before, ps, structs, gs) ==
    IF consoles = <<>> THEN ps
    ELSE LET console_entity == Head(consoles)
             p == FirstReceptionist(pawn_order, before)
             rest == Tail(consoles)
         IN IF is_staffed(before, console_entity)
            THEN StaffDesks(rest, pawn_order, before, ps, structs, gs)
            ELSE IF p = NoEntity
            THEN StaffDesks(rest, pawn_order, before, ps, structs, gs)
            ELSE StaffDesks(rest, pawn_order, before,
                     [ps EXCEPT ![p].target = grid_to_world(structs[console_entity].pos, gs),
                                ![p].staffing = console_entity],
                     structs, gs)

\* The pawns whose StaffingReception names a desk
Staffers(ps, desk) == {p \in DOMAIN ps : ps[p].staffing = desk}

assign_reception_staff ==
    /\ \E consoles \in VisitOrders(ReceptionConsoles(structures)) :
       \E pawn_order \in VisitOrders(DOMAIN pawns) :
          pawns' = StaffDesks(consoles, pawn_order, pawns, pawns, structures, grid_settings)
    /\ last_call' = [op |-> "assign_reception_staff",
                     before |-> [c \in ReceptionConsoles(structures) |-> Staffers(pawns, c)],
                     after |-> [c \in ReceptionConsoles(structures) |-> Staffers(pawns', c)]]
    /\ UNCHANGED <<grid_settings, building_map, money, blueprints, construction_jobs,
                   structures, markers, deconstruction_jobs, rooms, zones, wall_changed,
                   next_entity, save_file, load_pending, requests, elapsed, round_trip,
                   detect_ran>>
    /\ frame' = FrameAfter("assign_reception_staff")

move_pawns(dt) ==
    /\ pawns' = [p \in DOMAIN pawns |-> MovePawn(pawns[p], dt)]
    /\ UNCHANGED <<grid_settings, building_map, money, blueprints, construction_jobs,
                   structures, markers, deconstruction_jobs, rooms, zones, wall_changed,
                   next_entity, save_file, load_pending, requests, elapsed, round_trip, detect_ran,
                   last_call>>
    /\ frame' = FrameAfter("move_pawns")

work_on_blueprints(dt) ==
    LET reached == [p \in DOMAIN pawns |->
                        WorkedBlueprint(pawns[p], construction_jobs, blueprints, grid_settings)]
    IN /\ blueprints' = WorkPass(SetToSeq(DOMAIN pawns), blueprints, reached,
                                 CONSTRUCTION_SPEED, dt)
       /\ pawns' = StopWorkers(pawns, reached)
       /\ UNCHANGED <<grid_settings, building_map, money, construction_jobs, structures,
                      markers, deconstruction_jobs, rooms, zones, wall_changed,
                      next_entity, save_file, load_pending, requests, round_trip, detect_ran,
                      last_call>>
       /\ elapsed' = ElapsedAfter({reached[p] : p \in DOMAIN pawns}, dt)
       /\ frame' = FrameAfter("work_on_blueprints")

work_on_deconstruction(dt) ==
    LET reached == [p \in DOMAIN pawns |->
                        WorkedMarker(pawns[p], deconstruction_jobs, markers)]
    IN /\ markers' = WorkPass(SetToSeq(DOMAIN pawns), markers, reached,
                              DECONSTRUCTION_SPEED, dt)
       /\ pawns' = StopWorkers(pawns, reached)
       /\ UNCHANGED <<grid_settings, building_map, money, blueprints, construction_jobs,
                      structures, deconstruction_jobs, rooms, zones, wall_changed,
                      next_entity, save_file, load_pending, requests, elapsed,
                      round_trip, detect_ran, last_call>>
       /\ frame' = FrameAfter("work_on_deconstruction")

complete_blueprints ==
    LET done == {b \in DOMAIN blueprints : is_complete(blueprints[b])}
        done_jobs == {j \in DOMAIN construction_jobs : construction_jobs[j].blueprint \in done}
        w == CompleteBlueprints(World, SetToSeq(done))
    IN /\ pawns' = ClearPawns(pawns, construction_jobs, done_jobs)
       /\ InstallWorld([w EXCEPT !.construction_jobs = DelAll(@, done_jobs)])
       /\ wall_changed' = (wall_changed \/ \E b \in done : blueprints[b].building_type = "Wall")
       /\ UNCHANGED <<grid_settings, markers, deconstruction_jobs, rooms, zones, save_file,
                      load_pending, requests, last_call>>
       /\ elapsed' = ElapsedAfter({}, 0)
       /\ round_trip' = TrackRoundTrip
       /\ detect_ran' = DetectRanAfter
       /\ frame' = FrameAfter("complete_blueprints")

complete_deconstruction ==
    LET done == {m \in DOMAIN markers : is_complete(markers[m])}
        done_jobs == {j \in DOMAIN deconstruction_jobs : deconstruction_jobs[j].marker \in done}
    IN /\ pawns' = ClearPawns(pawns, deconstruction_jobs, done_jobs)
       /\ deconstruction_jobs' = DelAll(deconstruction_jobs, done_jobs)
       /\ building_map' = ReleaseAll(building_map, structures, markers, SetToSeq(done))
       /\ markers' = DelAll(markers, done)
       /\ structures' = DelAll(structures, {markers[m].target_entity : m \in done})
       /\ UNCHANGED <<grid_settings, money, blueprints, construction_jobs, rooms, zones,
                      wall_changed, next_entity, save_file, load_pending, requests,
                      elapsed, last_call>>
       /\ round_trip' = TrackRoundTrip
       /\ detect_ran' = DetectRanAfter
       /\ frame' = FrameAfter("complete_deconstruction")

(***************************************************************************)
(* The systems of SaveLoadPlugin.                                          *)
(***************************************************************************)
request_load_on_hotkey ==
    /\ PlayerRequest
    /\ load_pending' = TRUE
    /\ last_call' = NoCall
    /\ UNCHANGED <<grid_settings, building_map, money, blueprints, construction_jobs,
                   structures, markers, deconstruction_jobs, pawns, rooms, zones,
                   wall_changed, next_entity, save_file, elapsed, round_trip, detect_ran>>
    /\ frame' = FrameAfter("request_load_on_hotkey")

save_game_on_hotkey ==
    /\ PlayerRequest
    /\ save_file' = sort_save_data(collect_save_data(structures))
    /\ last_call' = NoCall
    /\ UNCHANGED <<grid_settings, building_map, money, blueprints, construction_jobs,
                   structures, markers, deconstruction_jobs, pawns, rooms, zones,
                   wall_changed, next_entity, load_pending, elapsed, round_trip, detect_ran>>
    /\ frame' = FrameAfter("save_game_on_hotkey")

process_load_requests ==
    /\ load_pending
    /\ load_pending' = FALSE
    /\ LET l == apply_save_data(clear_structures(structures), next_entity, save_file)
       IN /\ building_map' = l.building_map
          /\ structures' = l.structures
          /\ next_entity' = l.next_entity
    /\ blueprints' = EmptyMap
    /\ construction_jobs' = EmptyMap
    /\ deconstruction_jobs' = EmptyMap
    /\ markers' = EmptyMap
    /\ wall_changed' = (wall_changed \/ save_file.walls # <<>>)
    /\ UNCHANGED <<grid_settings, money, pawns, rooms, zones, save_file, requests>>
    /\ last_call' = [op |-> "apply_save_data",
                     stale |-> \E k \in DOMAIN Positions(building_map) :
                                  Positions(building_map)[k] \ SnapshotPositions(save_file)[k] # {}]
    /\ elapsed' = ElapsedAfter({}, 0)
    /\ round_trip' = TrackRoundTrip
    /\ detect_ran' = DetectRanAfter
    /\ frame' = FrameAfter("process_load_requests")

(***************************************************************************)
(* Initial states: the world after Startup.  GridSettings are fixed, the   *)
(* pawns stand at their spawn points, nothing is built, and the first      *)
(* load is pending (LoadRequestState::default), so that whatever the save  *)
(* file holds enters the world through process_load_requests.              *)
(***************************************************************************)
InitState(gs, save_files, budget, workers, balances, followed) ==
    /\ grid_settings = gs
    /\ building_map = EmptyBuildingMap
    /\ money \in balances
    /\ blueprints = EmptyMap
    /\ construction_jobs = EmptyMap
    /\ structures = EmptyMap
    /\ markers = EmptyMap
    /\ deconstruction_jobs = EmptyMap
    /\ pawns = [e \in 1 .. workers |-> InitialPawn(e - 1)]
    /\ rooms = EmptyMap
    /\ zones = EmptyMap
    /\ wall_changed = FALSE
    /\ next_entity = workers + 1
    /\ save_file \in save_files
    /\ load_pending = TRUE
    /\ requests = budget
    /\ elapsed = EmptyMap
    /\ round_trip = NoRoundTrip
    /\ detect_ran = FALSE
    /\ last_call = NoCall
    /\ frame = IF followed THEN NewFrame ELSE NoFrame

\* The world at the start with one of the given balances
InitWorld(gs, save_files, budget, workers, balances) ==
    InitState(gs, save_files, budget, workers, balances, FALSE)

\* The world at the start of a game: Money::default
InitWith(gs, save_files, budget, workers) ==
    InitWorld(gs, save_files, budget, workers, {STARTING_MONEY})

(***************************************************************************)
(* Player inputs, over the tools and tiles a specification explores.       *)
(***************************************************************************)
\* The orientation the placement reads for the tool: DoorPlacementState for a
\* door, FurniturePlacementState for furniture
ToolOrientations(bt) ==
    CASE bt.kind = "Door" -> {"Horizontal", "Vertical"}
      [] bt.kind = "Furniture" -> {"East"}
      [] OTHER -> {"None"}

\* The drags explored: a single tile, or two tiles side by side
DragEnds(gs, start) == {start} \cup ({Shift(start, 1, 0)} \cap GridTiles(gs))

Place(tools, tiles) ==
    \E bt \in tools : \E start \in tiles :
    \E end \in (IF bt.kind \in {"Wall", "Floor"} THEN DragEnds(grid_settings, start)
                ELSE {start}) :
    \E orientation \in ToolOrientations(bt) :
        handle_building_placement(bt, start, end, orientation)

OrderDeconstruction(tiles) ==
    \E start \in tiles : \E end \in DragEnds(grid_settings, start) :
        handle_deconstruction_placement(start, end)

OrderByMenu == \E target \in Deconstructible(structures) : handle_context_menu_clicks(target)

Tick(lengths) ==
    \E dt \in lengths :
        \/ move_pawns(dt)
        \/ work_on_blueprints(dt)
        \/ work_on_deconstruction(dt)

(***************************************************************************)
(* Spec: the BuildingMap of a 3 x 2 corner of the map under every tool,    *)
(* with one worker building and deconstructing.                            *)
(***************************************************************************)
BuildGrid == [width |-> 3, height |-> 2]

\* A save file with a desk on a wooden floor
SaveOffice ==
    [walls |-> <<>>,
     floors |-> [i \in 1 .. 4 |-> [position |-> <<(i - 1) \div 2, (i - 1) % 2>>,
                                   floor_type |-> "Wood"]],
     doors |-> <<>>,
     furniture |-> << [position |-> <<0, 0>>, furniture_type |-> "Desk",
                       orientation |-> "East"] >>]

Init == InitWith(BuildGrid, {EmptySave, SaveOffice}, MaxRequests, 1)

BuildTools == {WallType, DoorType, WindowType, FloorOf("Wood"),
               FurnitureOf("Chair"), FurnitureOf("ReceptionConsole")}

BuildTicks == {5}

PlaceAny == Place(BuildTools, GridTiles(grid_settings))

OrderAny == OrderDeconstruction(GridTiles(grid_settings))

BuildTick == Tick(BuildTicks)

Next ==
    \/ PlaceAny
    \/ OrderAny
    \/ OrderByMenu
    \/ request_load_on_hotkey
    \/ save_game_on_hotkey
    \/ process_load_requests
    \/ assign_jobs_to_pawns
    \/ assign_deconstruction_jobs_to_pawns
    \/ BuildTick
    \/ complete_blueprints
    \/ complete_deconstruction

Spec == Init /\ [][Next]_vars

(***************************************************************************)
(* Properties of the BuildingMap and of placement.                         *)
(***************************************************************************)
\* C1: in every reachable state, after any placements, completions,
\* deconstructions and snapshot loads, no tile is in both doors and occupied.
DoorsNeverOccupied ==
    \A t \in DOMAIN building_map.doors : t \notin building_map.occupied

\* The desks of the world, and whether one of them covers the tile with its
\* 2 x 2 area, by coordinates
DeskCovers(pos) ==
    \E e \in DOMAIN structures :
        /\ structures[e].kind = "Furniture"
        /\ structures[e].furniture_type = "Desk"
        /\ pos[1] - structures[e].pos[1] \in {0, 1}
        /\ pos[2] - structures[e].pos[2] \in {0, 1}

\* C8: a ReceptionConsole placed at a tile that no Desk's 2 x 2 footprint
\* covers is rejected: no object is created, money and the map are unchanged.
ConsoleNeedsDesk ==
    [][\A pos \in GridTiles(grid_settings) :
          (/\ handle_building_placement(FurnitureOf("ReceptionConsole"), pos, pos, "East")
           /\ ~DeskCovers(pos))
          => /\ structures' = structures
             /\ blueprints' = blueprints
             /\ construction_jobs' = construction_jobs
             /\ next_entity' = next_entity
             /\ money' = money
             /\ building_map' = building_map]_vars

\* A console was last requested at a tile beside a desk, outside its area,
\* and nothing was charged
ConsoleRejectedBesideDesk ==
    /\ last_call.op = "console"
    /\ ~DeskCovers(last_call.pos)
    /\ \E pos \in GridTiles(grid_settings) : DeskCovers(pos)
    /\ money = STARTING_MONEY

(***************************************************************************)
(* SpecWork: one worker, walls being built and taken down on the 3 x 2     *)
(* corner, with frame times that do not divide the work required.          *)
(***************************************************************************)
WorkRequests == 2     \* player requests explored per behaviour of SpecWork
CrewRequests == 2     \* player requests explored per behaviour of SpecCrew
CrewPawns == 2        \* workers of SpecCrew, of the three the game spawns

\* A save file with one finished wall
SaveWall ==
    [walls |-> << <<2, 1>> >>, floors |-> <<>>, doors |-> <<>>, furniture |-> <<>>]

InitWork == InitWith(BuildGrid, {SaveWall}, WorkRequests, 1)

WorkTicks == {3, 5}

PlaceWall == Place({WallType}, GridTiles(grid_settings))

ClickConstruction ==
    \E p \in DOMAIN pawns : \E shift_pressed \in BOOLEAN :
        handle_cell_clicks(p, "Construction", shift_pressed)

WorkTick == Tick(WorkTicks)

NextWork ==
    \/ PlaceWall
    \/ OrderByMenu
    \/ ClickConstruction
    \/ process_load_requests
    \/ assign_jobs_to_pawns
    \/ assign_deconstruction_jobs_to_pawns
    \/ WorkTick
    \/ complete_blueprints
    \/ complete_deconstruction

SpecWork == InitWork /\ [][NextWork]_vars

(***************************************************************************)
(* SpecCrew: the same corner with two workers competing for the jobs.      *)
(***************************************************************************)
InitCrew == InitWith(BuildGrid, {SaveWall}, CrewRequests, CrewPawns)

CrewTicks == {5}

CrewTick == Tick(CrewTicks)

NextCrew ==
    \/ PlaceWall
    \/ OrderByMenu
    \/ ClickConstruction
    \/ process_load_requests
    \/ assign_jobs_to_pawns
    \/ assign_deconstruction_jobs_to_pawns
    \/ CrewTick
    \/ complete_blueprints
    \/ complete_deconstruction

SpecCrew == InitCrew /\ [][NextCrew]_vars

(***************************************************************************)
(* Properties of the scheduler.                                            *)
(***************************************************************************)
\* The workers a pass may give a job to
IdleWorkers ==
    {p \in DOMAIN pawns :
        pawns[p].current_job = NoEntity /\ pawns[p].priorities["Construction"] > 0}

\* Of one pass over the jobs, in whatever order the pawns are visited: if one
\* job is open and two or more workers are idle, the job goes to the idle
\* worker visited first and the other idle workers stay idle
FirstWorkerWins(jobs, where) ==
    LET open == {j \in DOMAIN where : jobs[j].assigned_pawn = NoEntity}
    IN (Cardinality(open) = 1 /\ Cardinality(IdleWorkers) >= 2) =>
         \A order \in VisitOrders(DOMAIN pawns) :
         \A out \in AssignOutcomes(order, jobs, pawns, where) :
            LET j == CHOOSE x \in open : TRUE
                i == CHOOSE n \in DOMAIN order :
                        /\ order[n] \in IdleWorkers
                        /\ \A m \in 1 .. n - 1 : order[m] \notin IdleWorkers
            IN /\ out.jobs[j].assigned_pawn = order[i]
               /\ out.pawns[order[i]].current_job = j
               /\ \A p \in IdleWorkers \ {order[i]} : out.pawns[p].current_job = NoEntity

\* C2: no job is held by more than one worker, no two workers share a
\* current_job, a worker's job names that worker as its assignee, and of two
\* idle workers scheduled in one pass for one open job the first visited gets it.
JobsHeldOnce ==
    /\ \A p, q \in DOMAIN pawns :
          (p # q /\ pawns[p].current_job # NoEntity)
              => pawns[p].current_job # pawns[q].current_job
    /\ \A p \in DOMAIN pawns :
          /\ pawns[p].current_job \in DOMAIN construction_jobs
                => construction_jobs[pawns[p].current_job].assigned_pawn = p
          /\ pawns[p].current_job \in DOMAIN deconstruction_jobs
                => deconstruction_jobs[pawns[p].current_job].assigned_pawn = p
    /\ FirstWorkerWins(construction_jobs,
                       ConstructionTargets(construction_jobs, blueprints, grid_settings))
    /\ FirstWorkerWins(deconstruction_jobs,
                       DeconstructionTargets(deconstruction_jobs, markers, grid_settings))

\* One job exists and is held by one worker while another enabled worker
\* stayed idle
OneJobOneWorker ==
    \E p, q \in DOMAIN pawns :
        /\ p # q
        /\ q \in IdleWorkers
        /\ DOMAIN construction_jobs \cup DOMAIN deconstruction_jobs = {pawns[p].current_job}

(***************************************************************************)
(* SpecTrip: one worker on the 3 x 2 corner, loaded with a chair on a      *)
(* floor tile and a wall beside it; walls are placed and structures are    *)
(* ordered to be taken down from the context menu.                         *)
(***************************************************************************)
TripRequests == 3     \* player requests explored per behaviour of SpecTrip

SaveCorner ==
    [walls |-> << <<1, 0>> >>,
     floors |-> << [position |-> <<0, 0>>, floor_type |-> "Wood"] >>,
     doors |-> <<>>,
     furniture |-> << [position |-> <<0, 0>>, furniture_type |-> "Chair",
                       orientation |-> "East"] >>]

InitTrip == InitWith(BuildGrid, {SaveCorner}, TripRequests, 1)

TripTicks == {5}

TripTick == Tick(TripTicks)

PlaceOneWall ==
    \E pos \in GridTiles(grid_settings) :
        handle_building_placement(WallType, pos, pos, "None")

NextTrip ==
    \/ PlaceOneWall
    \/ OrderByMenu
    \/ process_load_requests
    \/ assign_jobs_to_pawns
    \/ assign_deconstruction_jobs_to_pawns
    \/ TripTick
    \/ complete_blueprints
    \/ complete_deconstruction

SpecTrip == InitTrip /\ [][NextTrip]_vars

\* C3: place a wall at an accepted tile P, complete its blueprint, mark the
\* finished wall, complete the deconstruction: P's membership in occupied,
\* walls, doors and floors is then what it was before the placement.
WallRoundTrip ==
    round_trip.stage = "done" =>
        Membership(building_map, round_trip.tile) = round_trip.before

(***************************************************************************)
(* Properties of the work ticks.                                           *)
(***************************************************************************)
\* C4: for every Blueprint and every DeconstructionMarker, in every
\* reachable state, 0 <= work_done <= work_required, whatever the tick length.
WorkWithinBounds ==
    /\ \A b \in DOMAIN blueprints :
          0 <= blueprints[b].work_done
          /\ blueprints[b].work_done <= blueprints[b].work_required
    /\ \A m \in DOMAIN markers :
          0 <= markers[m].work_done
          /\ markers[m].work_done <= markers[m].work_required

\* A blueprint is complete after ticks that would have overshot it
WorkClamped ==
    \E b \in DOMAIN blueprints :
        /\ blueprints[b].work_done = blueprints[b].work_required
        /\ 50 * elapsed[b] > 10 * blueprints[b].work_required

\* C5: a Wall blueprint (100 units required) with its worker in range gains
\* 50 units per second of tick time: once the ticks total 2.0 s it has exactly
\* 100, below that total it has less than 100, and above it stays at 100.
\* elapsed counts tenths of a second.
WallWorkRate ==
    \A b \in DOMAIN blueprints :
        blueprints[b].building_type = "Wall" =>
            /\ blueprints[b].work_required = 100
            /\ elapsed[b] >= 20 => blueprints[b].work_done = 100
            /\ elapsed[b] < 20 =>
                  /\ 10 * blueprints[b].work_done = 50 * elapsed[b]
                  /\ blueprints[b].work_done < 100

\* A wall blueprint has been worked on for exactly 2.0 s
WallWorkedTwoSeconds ==
    \E b \in DOMAIN blueprints :
        /\ blueprints[b].building_type = "Wall"
        /\ elapsed[b] = 20
        /\ blueprints[b].work_done = 100

(***************************************************************************)
(* Room detection (systems/room_detection.rs).                             *)
(***************************************************************************)
\* "occupied by a wall, or has a door"
Blocked(bm, pos) == is_occupied(bm, pos) \/ pos \in DOMAIN bm.doors

\* A variant for which only a tile beyond the grid is at the edge
AtEdgeBeyond(gs, pos) ==
    pos[1] < 0 \/ pos[1] > gs.width - 1 \/ pos[2] < 0 \/ pos[2] > gs.height - 1

\* "at the edge of the map (not enclosed)"
AtEdge(gs, pos) ==
    pos[1] <= 0 \/ pos[1] >= gs.width - 1 \/ pos[2] <= 0 \/ pos[2] >= gs.height - 1

\* The four neighbours in the order the code lists them
Neighbors(pos) ==
    <<Shift(pos, 1, 0), Shift(pos, -1, 0), Shift(pos, 0, 1), Shift(pos, 0, -1)>>

\* The neighbours pushed on the queue: in bounds, not visited, not blocked
RECURSIVE PushNeighbors(_, _, _, _)
PushNeighbors(ns, bm, gs, visited) ==
    IF ns = <<>> THEN <<>>
    ELSE LET n == Head(ns)
             rest == PushNeighbors(Tail(ns), bm, gs, visited)
         IN IF ~InGrid(gs, n) THEN rest
            ELSE IF n \in visited \/ Blocked(bm, n) THEN rest
            ELSE <<n>> \o rest

\* The while loop of flood_fill_room; f is [queue, visited, room_tiles, is_enclosed]
RECURSIVE FloodLoop(_, _, _)
FloodLoop(f, bm, gs) ==
    IF f.queue = <<>> THEN f
    ELSE LET pos == Head(f.queue)
         IN IF pos \in f.visited
            THEN FloodLoop([f EXCEPT !.queue = Tail(@)], bm, gs)
            ELSE LET visited == f.visited \cup {pos}
                 IN FloodLoop(
                      [queue |-> Tail(f.queue) \o PushNeighbors(Neighbors(pos), bm, gs, visited),
                       visited |-> visited,
                       room_tiles |-> f.room_tiles \cup {pos},
                       is_enclosed |-> f.is_enclosed /\ ~AtEdge(gs, pos)],
                      bm, gs)

flood_fill_room(start_pos, bm, gs, visited) ==
    FloodLoop([queue |-> <<start_pos>>, visited |-> visited, room_tiles |-> {},
               is_enclosed |-> TRUE], bm, gs)

\* The scan of find_enclosed_rooms over tile number i = y * width + x;
\* s is [visited, rooms]
RECURSIVE ScanTiles(_, _, _, _)
ScanTiles(i, s, bm, gs) ==
    IF i >= gs.width * gs.height THEN s
    ELSE LET pos == <<i % gs.width, i \div gs.width>>
         IN IF pos \in s.visited \/ Blocked(bm, pos)
            THEN ScanTiles(i + 1, s, bm, gs)
            ELSE LET f == flood_fill_room(pos, bm, gs, s.visited)
                     keep == f.is_enclosed /\ Cardinality(f.room_tiles) >= MIN_ROOM_TILES
                 IN ScanTiles(i + 1,
                              [visited |-> f.visited,
                               rooms |-> IF keep THEN Append(s.rooms, f.room_tiles)
                                         ELSE s.rooms],
                              bm, gs)

find_enclosed_rooms(bm, gs) == ScanTiles(0, [visited |-> {}, rooms |-> <<>>], bm, gs).rooms

\* detect_rooms: nothing happens unless a Wall's GridPosition changed since
\* the last run; otherwise every Room is despawned and the rooms found are spawned
detect_rooms ==
    /\ IF ~wall_changed
       THEN UNCHANGED <<rooms, next_entity>>
       ELSE LET found == find_enclosed_rooms(building_map, grid_settings)
            IN /\ rooms' = [e \in next_entity .. next_entity + Len(found) - 1 |->
                              found[e - next_entity + 1]]
               /\ next_entity' = next_entity + Len(found)
    /\ wall_changed' = FALSE
    /\ detect_ran' = TRUE
    /\ UNCHANGED <<grid_settings, building_map, money, blueprints, construction_jobs,
                   structures, markers, deconstruction_jobs, pawns, zones, save_file,
                   load_pending, requests, elapsed, round_trip, last_call>>
    /\ frame' = FrameAfter("detect_rooms")

(***************************************************************************)
(* SpecRoom: a 4 x 4 map whose save file holds a ring of walls around the  *)
(* four middle tiles; walls are ordered down and new walls are placed.     *)
(***************************************************************************)
RoomRequests == 2     \* player requests explored per behaviour of SpecRoom

RoomGrid == [width |-> 4, height |-> 4]

\* The walls next to the four middle tiles, in (x, y) order
SaveRing ==
    [walls |-> << <<0, 1>>, <<0, 2>>, <<1, 0>>, <<1, 3>>,
                  <<2, 0>>, <<2, 3>>, <<3, 1>>, <<3, 2>> >>,
     floors |-> <<>>, doors |-> <<>>, furniture |-> <<>>]

InitRoom == InitWith(RoomGrid, {SaveRing}, RoomRequests, 1)

RoomTicks == {5}

RoomTick == Tick(RoomTicks)

NextRoom ==
    \/ PlaceOneWall
    \/ OrderByMenu
    \/ process_load_requests
    \/ assign_jobs_to_pawns
    \/ assign_deconstruction_jobs_to_pawns
    \/ RoomTick
    \/ complete_blueprints
    \/ complete_deconstruction
    \/ detect_rooms

SpecRoom == InitRoom /\ [][NextRoom]_vars


(***************************************************************************)
(* Rooms against the walls that stand                                      *)
(***************************************************************************)
OpenTiles == {t \in GridTiles(grid_settings) : ~Blocked(building_map, t)}

Adjacent(a, b) ==
    \/ a[1] = b[1] /\ (a[2] = b[2] + 1 \/ b[2] = a[2] + 1)
    \/ a[2] = b[2] /\ (a[1] = b[1] + 1 \/ b[1] = a[1] + 1)

\* The open tiles connected to S through open tiles
RECURSIVE OpenRegion(_)
OpenRegion(S) ==
    LET more == {t \in OpenTiles \ S : \E s \in S : Adjacent(s, t)}
    IN IF more = {} THEN S ELSE OpenRegion(S \cup more)

ReachesEdge(S) == \E t \in OpenRegion(S) : AtEdge(grid_settings, t)

\* The tiles where a built Wall stands
WallTiles == {structures[e].pos : e \in {w \in DOMAIN structures : structures[w].kind = "Wall"}}

\* An interior of four connected open tiles away from the outer ring, every
\* tile next to it a wall
EnclosedInteriors ==
    {S \in SUBSET {t \in OpenTiles : ~AtEdge(grid_settings, t)} :
        /\ Cardinality(S) = 4
        /\ \A s, t \in S : t \in OpenRegion({s})
        /\ \A s \in S : \A t \in GridTiles(grid_settings) \ S :
              Adjacent(s, t) => t \in WallTiles}

RoomsOf(S) == {r \in DOMAIN rooms : rooms[r] \cap S # {}}

\* C6: once room detection has run on the present map, every enclosed
\* 4-tile interior away from the outer ring has exactly one Room, made of
\* exactly those 4 tiles, and no Room is left from an area whose open tiles
\* connect to the grid edge (as after a boundary wall was removed).
RoomsFollowWalls ==
    detect_ran =>
        /\ \A S \in EnclosedInteriors :
              /\ Cardinality(RoomsOf(S)) = 1
              /\ \A r \in RoomsOf(S) : rooms[r] = S
        /\ \A r \in DOMAIN rooms :
              ~ReachesEdge(rooms[r] \cap OpenTiles)

\* detect_rooms ran on a map with an enclosed interior and a Room exists
RoomDetected == detect_ran /\ EnclosedInteriors # {} /\ DOMAIN rooms # {}


(***************************************************************************)
(* Bedroom zones (systems/room_detection.rs).                              *)
(***************************************************************************)
MIN_BEDROOM_TILES == 12

\* A variant with the Good band one item wider
calculate_bedroom_quality_wide(tile_count, furniture_count) ==
    IF tile_count < MIN_BEDROOM_TILES THEN "None"
    ELSE IF furniture_count <= 1 THEN "Basic"
    ELSE IF furniture_count <= 4 THEN "Good"
    ELSE IF furniture_count <= 5 THEN "Excellent"
    ELSE "Luxury"

calculate_bedroom_quality(tile_count, furniture_count) ==
    IF tile_count < MIN_BEDROOM_TILES THEN "None"
    ELSE IF furniture_count <= 1 THEN "Basic"
    ELSE IF furniture_count <= 3 THEN "Good"
    ELSE IF furniture_count <= 5 THEN "Excellent"
    ELSE "Luxury"

MIN_LOBBY_TILES == 15

\* A variant that grades on size or furniture alone
calculate_lobby_quality_either(tile_count, furniture_count) ==
    IF tile_count < MIN_LOBBY_TILES THEN "None"
    ELSE IF tile_count >= 40 \/ furniture_count >= 5 THEN "Luxury"
    ELSE IF tile_count >= 30 \/ furniture_count >= 4 THEN "Excellent"
    ELSE IF tile_count >= 20 \/ furniture_count >= 2 THEN "Good"
    ELSE "Basic"

calculate_lobby_quality(tile_count, furniture_count) ==
    IF tile_count < MIN_LOBBY_TILES THEN "None"
    ELSE IF tile_count >= 40 /\ furniture_count >= 5 THEN "Luxury"
    ELSE IF tile_count >= 30 /\ furniture_count >= 4 THEN "Excellent"
    ELSE IF tile_count >= 20 /\ furniture_count >= 2 THEN "Good"
    ELSE "Basic"

\* Zone::new with the tiles and quality the system assigns
ZoneNew(zone_type, name, tiles, quality) ==
    [zone_type |-> zone_type, tiles |-> tiles, quality |-> quality, name |-> name]

\* Entities with the Furniture component, and those with the Bed component
FurnitureEntities(structs) == {e \in DOMAIN structs : structs[e].kind = "Furniture"}

BedEntities(structs) ==
    {e \in FurnitureEntities(structs) :
        structs[e].furniture_type \in {"BedSingle", "BedDouble"}}

\* bed_query.iter().any(|bed_pos| room.contains_tile(bed_pos))
has_bed(structs, tiles) == \E e \in BedEntities(structs) : structs[e].pos \in tiles

furniture_in_room(structs, tiles) ==
    {e \in FurnitureEntities(structs) : structs[e].pos \in tiles}

IsBedroomOf(zone, tiles) ==
    zone.zone_type = "GuestBedroom" /\ zone.tiles \cap tiles # {}

\* The loop of auto_assign_bedroom_zones over the rooms in the order visited:
\* the outcomes [zones, spawned], where the first matching zone of the zone
\* query (whose order is not fixed) is updated in place and a zone to spawn is
\* queued when none matches
RECURSIVE BedroomOutcomes(_, _, _, _, _)
BedroomOutcomes(order, rms, structs, zs, spawned) ==
    IF order = <<>> THEN {[zones |-> zs, spawned |-> spawned]}
    ELSE LET room_entity == Head(order)
             tiles == rms[room_entity]
             quality == calculate_bedroom_quality(
                            Cardinality(tiles),
                            Cardinality(furniture_in_room(structs, tiles)))
             matching == {z \in DOMAIN zs : IsBedroomOf(zs[z], tiles)}
         IN IF ~has_bed(structs, tiles)
            THEN BedroomOutcomes(Tail(order), rms, structs, zs, spawned)
            ELSE IF matching = {}
            THEN BedroomOutcomes(Tail(order), rms, structs, zs,
                     Append(spawned,
                            ZoneNew("GuestBedroom", <<"Guest Bedroom", room_entity>>,
                                    tiles, quality)))
            ELSE UNION {BedroomOutcomes(Tail(order), rms, structs,
                            [zs EXCEPT ![z].tiles = tiles, ![z].quality = quality],
                            spawned) : z \in matching}

auto_assign_bedroom_zones ==
    /\ \E order \in VisitOrders(DOMAIN rooms) :
       \E out \in BedroomOutcomes(order, rooms, structures, zones, <<>>) :
          /\ zones' = [e \in DOMAIN out.zones \cup
                             (next_entity .. next_entity + Len(out.spawned) - 1) |->
                          IF e \in DOMAIN out.zones THEN out.zones[e]
                          ELSE out.spawned[e - next_entity + 1]]
          /\ next_entity' = next_entity + Len(out.spawned)
    /\ last_call' = [op |-> "auto_assign_bedroom_zones", zones |-> zones,
                     rooms |-> rooms, structures |-> structures]
    /\ UNCHANGED <<grid_settings, building_map, money, blueprints, construction_jobs,
                   structures, markers, deconstruction_jobs, pawns, rooms, wall_changed,
                   save_file, load_pending, requests, elapsed, round_trip, detect_ran>>
    /\ frame' = FrameAfter("auto_assign_bedroom_zones")

(***************************************************************************)
(* SpecZone: a 5 x 6 map whose save file holds the walls around a floored  *)
(* 3 x 4 interior; the player furnishes the room.                          *)
(***************************************************************************)
ZoneRequests == 4     \* player requests explored per behaviour of SpecZone

ZoneGrid == [width |-> 5, height |-> 6]

SaveBedroom ==
    [walls |-> << <<0, 1>>, <<0, 2>>, <<0, 3>>, <<0, 4>>, <<1, 0>>, <<1, 5>>,
                  <<2, 0>>, <<2, 5>>, <<3, 0>>, <<3, 5>>,
                  <<4, 1>>, <<4, 2>>, <<4, 3>>, <<4, 4>> >>,
     floors |-> [i \in 1 .. 12 |->
                   [position |-> <<1 + ((i - 1) \div 4), 1 + ((i - 1) % 4)>>,
                    floor_type |-> "Wood"]],
     doors |-> <<>>, furniture |-> <<>>]

InitZone == InitWith(ZoneGrid, {SaveBedroom}, ZoneRequests, 1)

\* The tiles the cursor is clicked on: the bed's corner and tiles beside the bed
ZoneCursor == {<<1, 1>>, <<3, 1>>, <<3, 2>>, <<3, 3>>, <<3, 4>>, <<1, 4>>}

Furnish == Place({FurnitureOf("BedSingle"), FurnitureOf("Nightstand")}, ZoneCursor)

NextZone ==
    \/ Furnish
    \/ process_load_requests
    \/ detect_rooms
    \/ auto_assign_bedroom_zones

SpecZone == InitZone /\ [][NextZone]_vars


(***************************************************************************)
(* Bedroom classification                                                  *)
(***************************************************************************)
\* The last system to run was the bedroom pass, on the rooms and furniture
\* that are there now
BedroomPassDone ==
    /\ last_call.op = "auto_assign_bedroom_zones"
    /\ last_call.rooms = rooms
    /\ last_call.structures = structures

BedroomsOf(zs, tiles) ==
    {z \in DOMAIN zs : zs[z].zone_type = "GuestBedroom" /\ zs[z].tiles \cap tiles # {}}

FurnitureCount(tiles) ==
    Cardinality({e \in DOMAIN structures :
                    structures[e].kind = "Furniture" /\ structures[e].pos \in tiles})

BedIn(tiles) ==
    \E e \in DOMAIN structures :
        /\ structures[e].kind = "Furniture"
        /\ structures[e].furniture_type \in {"BedSingle", "BedDouble"}
        /\ structures[e].pos \in tiles

\* C7: after a classification pass, a Room of at least 12 tiles that holds a
\* Bed has one GuestBedroom Zone; its quality is Basic when the Bed is the
\* only furniture whose grid position lies in the Room and Excellent when
\* there are four; and when such a Zone was there before the pass it is that
\* same Zone that carries the new quality, no Zone having been added.
BedroomZoneFollowsFurniture ==
    BedroomPassDone =>
        \A r \in DOMAIN rooms :
            (Cardinality(rooms[r]) >= 12 /\ BedIn(rooms[r])) =>
                /\ Cardinality(BedroomsOf(zones, rooms[r])) = 1
                /\ \A z \in BedroomsOf(zones, rooms[r]) :
                      /\ FurnitureCount(rooms[r]) = 1 => zones[z].quality = "Basic"
                      /\ FurnitureCount(rooms[r]) = 4 => zones[z].quality = "Excellent"
                /\ BedroomsOf(last_call.zones, rooms[r]) # {} =>
                      /\ BedroomsOf(zones, rooms[r]) = BedroomsOf(last_call.zones, rooms[r])
                      /\ DOMAIN zones = DOMAIN last_call.zones

\* A pass has just raised the Basic Zone of a 12-tile Room with a Bed and
\* three more pieces of furniture to Excellent
BasicBecameExcellent ==
    /\ BedroomPassDone
    /\ \E r \in DOMAIN rooms : \E z \in DOMAIN last_call.zones :
          /\ Cardinality(rooms[r]) >= 12
          /\ BedIn(rooms[r])
          /\ FurnitureCount(rooms[r]) = 4
          /\ z \in BedroomsOf(last_call.zones, rooms[r])
          /\ last_call.zones[z].quality = "Basic"
          /\ zones[z].quality = "Excellent"
          /\ DOMAIN zones = {z}


(***************************************************************************)
(* SpecPrio: one worker's priority table under clicks on every cell of its *)
(* row, and get_highest_priority_work applied to candidate lists.          *)
(***************************************************************************)
PrioClicks == 6       \* player requests explored per behaviour of SpecPrio

InitPrio == InitWith(BuildGrid, {EmptySave}, PrioClicks, 1)

\* The candidate lists of up to MaxCandidates work types
CandidateLists ==
    UNION {[1 .. n -> WorkTypes] : n \in 0 .. MaxCandidates}

\* A call of WorkAssignments::get_highest_priority_work on a worker's table
ask_highest_priority_work ==
    /\ \E p \in DOMAIN pawns : \E available_work_types \in CandidateLists :
          last_call' = [op |-> "get_highest_priority_work",
                        table |-> pawns[p].priorities,
                        available_work_types |-> available_work_types,
                        result |-> get_highest_priority_work(pawns[p].priorities,
                                                             available_work_types)]
    /\ UNCHANGED <<grid_settings, building_map, money, blueprints, construction_jobs,
                   structures, markers, deconstruction_jobs, pawns, rooms, zones,
                   wall_changed, next_entity, save_file, load_pending, requests, elapsed,
                   round_trip, detect_ran>>
    /\ frame' = FrameAfter("ask_highest_priority_work")

ClickAnyCell ==
    \E p \in DOMAIN pawns : \E wt \in WorkTypes : \E shift_pressed \in BOOLEAN :
        handle_cell_clicks(p, wt, shift_pressed)

NextPrio ==
    \/ ClickAnyCell
    \/ ask_highest_priority_work
    \/ process_load_requests

SpecPrio == InitPrio /\ [][NextPrio]_vars

\* C9: get_highest_priority_work returns none exactly when every candidate
\* is disabled (priority 0); otherwise it returns the first candidate in list
\* order among the enabled candidates of smallest priority number; with
\* Construction at 1 and Cleaning at 3 it returns Construction for either
\* order of the two.
HighestPriorityWork ==
    last_call.op = "get_highest_priority_work" =>
        LET t == last_call.table
            c == last_call.available_work_types
            res == last_call.result
            Enabled(i) == t[c[i]] # 0
        IN /\ res = NoWork <=> \A i \in DOMAIN c : t[c[i]] = 0
           /\ res # NoWork =>
                 \E i \in DOMAIN c :
                    /\ c[i] = res
                    /\ Enabled(i)
                    /\ \A j \in DOMAIN c : Enabled(j) => t[c[i]] <= t[c[j]]
                    /\ \A j \in DOMAIN c : (Enabled(j) /\ t[c[j]] = t[c[i]]) => i <= j
           /\ (/\ t["Construction"] = 1
               /\ t["Cleaning"] = 3
               /\ c \in {<<"Construction", "Cleaning">>, <<"Cleaning", "Construction">>})
                 => res = "Construction"

\* A call with two different candidates of equal enabled priority answered
\* with the first
TieTakesFirst ==
    /\ last_call.op = "get_highest_priority_work"
    /\ Len(last_call.available_work_types) = 2
    /\ last_call.available_work_types[1] # last_call.available_work_types[2]
    /\ last_call.table[last_call.available_work_types[1]] # 0
    /\ last_call.table[last_call.available_work_types[1]] =
          last_call.table[last_call.available_work_types[2]]
    /\ last_call.result = last_call.available_work_types[1]

\* The adjust-down and adjust-up steps as tables
StepTowardsHighest == (0 :> 1) @@ (1 :> 1) @@ (2 :> 1) @@ (3 :> 2) @@ (4 :> 3)

StepTowardsDisabled == (0 :> 0) @@ (1 :> 2) @@ (2 :> 3) @@ (3 :> 4) @@ (4 :> 0)

\* C10: decrease_towards_highest takes 0 to 1, 1 to 1 and n in 2..4 to n-1;
\* increase_towards_disabled takes 0 to 0, 4 to 0 and n in 1..3 to n+1; and
\* every priority of every worker stays within 0..4 under any sequence of
\* clicks from the default table.
PriorityStepsStayInRange ==
    /\ \A p \in DOMAIN pawns : \A wt \in WorkTypes : pawns[p].priorities[wt] \in 0 .. 4
    /\ last_call.op = "decrease_priority" =>
          /\ last_call.before \in 0 .. 4
          /\ last_call.after = StepTowardsHighest[last_call.before]
    /\ last_call.op = "increase_priority" =>
          /\ last_call.before \in 0 .. 4
          /\ last_call.after = StepTowardsDisabled[last_call.before]

\* A shift-click has just taken a priority from 4 to disabled
LowestWrappedToDisabled ==
    /\ last_call.op = "increase_priority"
    /\ last_call.before = 4
    /\ last_call.after = 0


(***************************************************************************)
(* SpecMark: deconstruction orders, by drag and by context menu, on a      *)
(* loaded wall and chair, with one worker carrying them out.               *)
(***************************************************************************)
MarkRequests == 4     \* player requests explored per behaviour of SpecMark

InitMark == InitWith(BuildGrid, {SaveCorner}, MarkRequests, 1)

MarkTicks == {5}

MarkTick == \E dt \in MarkTicks : move_pawns(dt) \/ work_on_deconstruction(dt)

OrderAnywhere == OrderDeconstruction(GridTiles(grid_settings))

NextMark ==
    \/ OrderAnywhere
    \/ OrderByMenu
    \/ process_load_requests
    \/ assign_deconstruction_jobs_to_pawns
    \/ MarkTick
    \/ complete_deconstruction

SpecMark == InitMark /\ [][NextMark]_vars

MarkersOf(e) == {m \in DOMAIN markers : markers[m].target_entity = e}

JobsOf(e) ==
    {j \in DOMAIN deconstruction_jobs :
        /\ deconstruction_jobs[j].marker \in DOMAIN markers
        /\ markers[deconstruction_jobs[j].marker].target_entity = e}

\* C11: no target has two DeconstructionMarkers or two DeconstructionJobs,
\* and a request, by context menu or by drag, that covers a target already
\* marked makes no marker and no job for it.
OneMarkerPerTarget ==
    /\ \A e \in DOMAIN structures :
          Cardinality(MarkersOf(e)) <= 1 /\ Cardinality(JobsOf(e)) <= 1
    /\ last_call.op = "mark" =>
          last_call.new_markers = {} /\ last_call.new_jobs = {}

\* A request has just covered a marked target, which still has its one
\* marker and its one job
MarkedTwiceOnce ==
    /\ last_call.op = "mark"
    /\ \E e \in last_call.again :
          Cardinality(MarkersOf(e)) = 1 /\ Cardinality(JobsOf(e)) = 1


(***************************************************************************)
(* Jobs against blueprints                                                 *)
(***************************************************************************)
JobsFor(b) == {j \in DOMAIN construction_jobs : construction_jobs[j].blueprint = b}

\* C12: every ConstructionJob refers to a Blueprint that exists, and every
\* Blueprint has exactly one ConstructionJob: a job goes when its Blueprint
\* goes, also when a window or a door replaces a wall that is still a
\* blueprint.
JobsMatchBlueprints ==
    /\ \A j \in DOMAIN construction_jobs :
          construction_jobs[j].blueprint \in DOMAIN blueprints
    /\ \A b \in DOMAIN blueprints : Cardinality(JobsFor(b)) = 1


(***************************************************************************)
(* SpecPoor: placements with little money left.  The balances are those    *)
(* left on an empty map after walls were placed and deconstructed again,   *)
(* 10 a time.                                                              *)
(***************************************************************************)
PoorRequests == 2     \* player requests explored per behaviour of SpecPoor

PoorBalances == {0, 10, 40}

\* A save file with two floored tiles and nothing on them
SaveFloored ==
    [walls |-> <<>>,
     floors |-> << [position |-> <<0, 0>>, floor_type |-> "Wood"],
                   [position |-> <<1, 0>>, floor_type |-> "Wood"] >>,
     doors |-> <<>>, furniture |-> <<>>]

InitPoor == InitWorld(BuildGrid, {SaveFloored}, PoorRequests, 1, PoorBalances)

PoorTools == {WallType, DoorType, WindowType, FloorOf("Wood"), FurnitureOf("Chair")}

PoorTicks == {5}

PlacePoor == Place(PoorTools, GridTiles(grid_settings))

PoorTick == \E dt \in PoorTicks : move_pawns(dt) \/ work_on_blueprints(dt)

NextPoor ==
    \/ PlacePoor
    \/ process_load_requests
    \/ assign_jobs_to_pawns
    \/ PoorTick
    \/ complete_blueprints

SpecPoor == InitPoor /\ [][NextPoor]_vars

\* The tiles of the rectangle between two corners
Rectangle(start, end) ==
    {t \in GridTiles(grid_settings) :
        /\ Min(start[1], end[1]) <= t[1] /\ t[1] <= Max(start[1], end[1])
        /\ Min(start[2], end[2]) <= t[2] /\ t[2] <= Max(start[2], end[2])}

\* C13: a placement request that costs more than the balance creates no
\* Blueprint, ConstructionJob or furniture and changes neither the
\* BuildingMap nor the balance; in a drag this holds tile by tile: the tiles
\* that can be paid are built, the balance never goes below zero, and the
\* tiles left out keep their place in the BuildingMap.
UnaffordableIsNoOp ==
    [][(requests' = requests - 1 /\ last_call'.op = "unaffordable") =>
          LET bt == last_call'.bt
              new_bps == DOMAIN blueprints' \ DOMAIN blueprints
              new_jobs == DOMAIN construction_jobs' \ DOMAIN construction_jobs
              new_structs == DOMAIN structures' \ DOMAIN structures
              built == {blueprints'[b].pos : b \in new_bps}
          IN /\ money' >= 0
             /\ money' = money - cost(bt) * Cardinality(new_bps)
             /\ Cardinality(new_jobs) = Cardinality(new_bps)
             /\ new_structs = {}
             /\ cost(bt) > money =>
                   /\ new_bps = {}
                   /\ building_map' = building_map
                   /\ money' = money
             /\ \A t \in Rectangle(last_call'.start, last_call'.end) \ built :
                   Membership(building_map', t) = Membership(building_map, t)]_vars

\* A drag of walls over two free tiles with money for one has just been
\* answered: one blueprint, the other tile left free, nothing left to spend
HalfPaidDrag ==
    /\ last_call.op = "unaffordable"
    /\ last_call.bt = WallType
    /\ last_call.start # last_call.end
    /\ money = 0
    /\ \E b \in DOMAIN blueprints : blueprints[b].pos = last_call.start
    /\ ~is_occupied(building_map, last_call.end)
    /\ \A b \in DOMAIN blueprints : blueprints[b].pos # last_call.end


(***************************************************************************)
(* SpecDesk: two reception consoles from a save file, two workers whose    *)
(* Reception priority the player switches on and off, and reloads that     *)
(* replace the consoles while the workers keep their StaffingReception.    *)
(***************************************************************************)
DeskRequests == 3     \* player requests explored per behaviour of SpecDesk
DeskPawns == 2        \* workers of SpecDesk

SaveConsoles ==
    [walls |-> <<>>, floors |-> <<>>, doors |-> <<>>,
     furniture |-> << [position |-> <<0, 0>>, furniture_type |-> "ReceptionConsole",
                       orientation |-> "East"],
                      [position |-> <<2, 1>>, furniture_type |-> "ReceptionConsole",
                       orientation |-> "East"] >>]

InitDesk == InitWith(BuildGrid, {SaveConsoles}, DeskRequests, DeskPawns)

DeskTicks == {5}

ClickReception ==
    \E p \in DOMAIN pawns : \E shift_pressed \in BOOLEAN :
        handle_cell_clicks(p, "Reception", shift_pressed)

DeskTick == \E dt \in DeskTicks : move_pawns(dt)

NextDesk ==
    \/ ClickReception
    \/ request_load_on_hotkey
    \/ process_load_requests
    \/ assign_reception_staff
    \/ DeskTick

SpecDesk == InitDesk /\ [][NextDesk]_vars

\* C14: every ReceptionConsole is named by the StaffingReception of at most
\* one worker; a staffing pass gives a desk that was unstaffed at most one
\* worker and leaves the workers of a staffed desk as they were.
OneWorkerPerDesk ==
    /\ \A c \in ReceptionConsoles(structures) : Cardinality(Staffers(pawns, c)) <= 1
    /\ last_call.op = "assign_reception_staff" =>
          \A c \in DOMAIN last_call.before :
              /\ Cardinality(last_call.after[c]) <= 1
              /\ last_call.before[c] # {} => last_call.after[c] = last_call.before[c]

\* A pass has just run with one desk staffed, the other desk free and an
\* idle receptionist at hand: the free desk got that worker, the staffed
\* desk kept its own
SecondDeskStaffed ==
    /\ last_call.op = "assign_reception_staff"
    /\ \E c, d \in DOMAIN last_call.before :
          /\ c # d
          /\ last_call.before[c] # {}
          /\ last_call.before[d] = {}
          /\ last_call.after[d] # {}
          /\ last_call.after[d] # last_call.after[c]


(***************************************************************************)
(* SpecLoad: a snapshot with a wall, a door, a floor and a chair, loaded   *)
(* over whatever the player has built or saved since.                      *)
(***************************************************************************)
LoadRequests == 2     \* player requests explored per behaviour of SpecLoad

SaveDoorway ==
    [walls |-> << <<2, 1>> >>,
     floors |-> << [position |-> <<0, 1>>, floor_type |-> "Wood"] >>,
     doors |-> << [position |-> <<0, 0>>, orientation |-> "Horizontal"] >>,
     furniture |-> << [position |-> <<1, 1>>, furniture_type |-> "Chair",
                       orientation |-> "East"] >>]

InitLoad == InitWith(BuildGrid, {SaveDoorway}, LoadRequests, 1)

LoadTicks == {5}

PlaceWallOrFloor == Place({WallType, FloorOf("Wood")}, GridTiles(grid_settings))

LoadTick == \E dt \in LoadTicks : move_pawns(dt) \/ work_on_blueprints(dt)

NextLoad ==
    \/ PlaceWallOrFloor
    \/ request_load_on_hotkey
    \/ save_game_on_hotkey
    \/ process_load_requests
    \/ assign_jobs_to_pawns
    \/ LoadTick
    \/ complete_blueprints

SpecLoad == InitLoad /\ [][NextLoad]_vars

\* C15: once a snapshot has been applied the BuildingMap holds the
\* snapshot's tiles and nothing of the map before the load: floors are its
\* floor positions, walls its wall positions, doors the two tiles of each of
\* its doors, occupied its wall positions and furniture footprints; applying
\* the snapshot once more gives the same map.
LoadReplacesMap ==
    last_call.op = "apply_save_data" =>
        /\ Positions(building_map) = SnapshotPositions(save_file)
        /\ Positions(apply_save_data(clear_structures(structures), next_entity,
                                     save_file).building_map) = Positions(building_map)

\* A snapshot with a wall, a door, a floor or furniture has just been applied
\* over a map that held other tiles
LoadedOverOtherMap ==
    /\ last_call.op = "apply_save_data"
    /\ last_call.stale
    /\ save_file.doors # <<>>
    /\ save_file.walls # <<>>
    /\ save_file.floors # <<>>
    /\ save_file.furniture # <<>>


\* The positions of a list of snapshot entries
EntryPositions(entries) == [i \in DOMAIN entries |-> entries[i].position]

\* Non-decreasing (x, y) order of a list of positions
InOrder(points) ==
    \A i, j \in DOMAIN points : i < j => PosLeq(points[i], points[j])

\* C16: the snapshot in the save file has its walls, floors, doors and
\* furniture each in non-decreasing (x, y) order of position.
SnapshotsSorted ==
    /\ InOrder(save_file.walls)
    /\ InOrder(EntryPositions(save_file.floors))
    /\ InOrder(EntryPositions(save_file.doors))
    /\ InOrder(EntryPositions(save_file.furniture))

\* The player has saved two walls that the wall query yields in the other
\* order
SavedOutOfQueryOrder ==
    /\ Len(save_file.walls) = 2
    /\ save_file.walls[1] # save_file.walls[2]
    /\ collect_save_data(structures).walls = <<save_file.walls[2], save_file.walls[1]>>


(***************************************************************************)
(* SpecFrame: the Update schedule, frame by frame.  Every system runs once *)
(* per frame.  Systems added in one .chain() run in the order of the       *)
(* chain; between the groups of WorkPlugin's tuple, and between plugins,   *)
(* the schedule has no ordering, so any order can come out.  The input     *)
(* handlers do nothing in a frame without their input.                     *)
(***************************************************************************)
FrameRequests == 3    \* player requests explored per behaviour of SpecFrame

\* The .chain() calls of BuildingPlugin, WorkPlugin and RoomDetectionPlugin
Chains ==
    { <<"handle_building_placement", "handle_deconstruction_placement",
        "handle_context_menu_clicks">>,
      <<"assign_jobs_to_pawns", "assign_deconstruction_jobs_to_pawns",
        "assign_reception_staff">>,
      <<"work_on_blueprints", "work_on_deconstruction">>,
      <<"complete_blueprints", "complete_deconstruction">>,
      <<"detect_rooms", "auto_assign_bedroom_zones">> }

\* The systems of SpecFrame that act in every frame
FrameSystems ==
    {"assign_jobs_to_pawns", "assign_deconstruction_jobs_to_pawns", "assign_reception_staff",
     "move_pawns", "work_on_blueprints", "complete_blueprints", "detect_rooms"}

\* A schedule without the chains: each system once a frame, in any order
ScheduledUnchained(system) == frame.on /\ system \notin frame.ran

\* The system can run now: it has not run in this frame, the systems before
\* it in its chain have, and none after it in its chain has
Scheduled(system) ==
    /\ frame.on
    /\ system \notin frame.ran
    /\ \A chain \in Chains : \A i, j \in DOMAIN chain :
          /\ (i < j /\ chain[j] = system /\ chain[i] \in FrameSystems) => chain[i] \in frame.ran
          /\ (i < j /\ chain[i] = system) => chain[j] \notin frame.ran

\* The end of a frame and the start of the next
next_frame ==
    /\ frame.on
    /\ FrameSystems \subseteq frame.ran
    /\ ~load_pending
    /\ frame' = NewFrame
    /\ UNCHANGED <<grid_settings, building_map, money, blueprints, construction_jobs,
                   structures, markers, deconstruction_jobs, pawns, rooms, zones,
                   wall_changed, next_entity, save_file, load_pending, requests,
                   elapsed, round_trip, detect_ran, last_call>>

\* A save file with a wall and a reception console
SaveLobby ==
    [walls |-> << <<2, 1>> >>, floors |-> <<>>, doors |-> <<>>,
     furniture |-> << [position |-> <<0, 0>>, furniture_type |-> "ReceptionConsole",
                       orientation |-> "East"] >>]

InitFrame == InitState(BuildGrid, {SaveLobby}, FrameRequests, 1, {STARTING_MONEY}, TRUE)

FrameTicks == {5}

\* A click on a worker's Reception cell
EnableReception == \E p \in DOMAIN pawns : handle_cell_clicks(p, "Reception", FALSE)

\* A wall ordered at the tile beside the saved wall
PlaceWallBeside == handle_building_placement(WallType, <<1, 1>>, <<1, 1>>, "None")

NextFrame ==
    \/ Scheduled("handle_building_placement") /\ PlaceWallBeside
    \/ Scheduled("handle_context_menu_clicks") /\ OrderByMenu
    \/ Scheduled("handle_cell_clicks") /\ EnableReception
    \/ Scheduled("process_load_requests") /\ process_load_requests
    \/ Scheduled("assign_jobs_to_pawns") /\ assign_jobs_to_pawns
    \/ Scheduled("assign_deconstruction_jobs_to_pawns") /\ assign_deconstruction_jobs_to_pawns
    \/ Scheduled("assign_reception_staff") /\ assign_reception_staff
    \/ Scheduled("move_pawns") /\ \E dt \in FrameTicks : move_pawns(dt)
    \/ Scheduled("work_on_blueprints") /\ \E dt \in FrameTicks : work_on_blueprints(dt)
    \/ Scheduled("complete_blueprints") /\ complete_blueprints
    \/ Scheduled("detect_rooms") /\ detect_rooms
    \/ next_frame

SpecFrame == InitFrame /\ [][NextFrame]_vars

\* C17: within a frame the phases run in the order placement, assignment
\* passes, work, completion, room detection: no system runs after a system
\* of a later phase.
PhasesInOrder == frame.on => frame.in_order

\* C18: in each frame the assignment passes run in the order construction,
\* deconstruction, reception staffing, and no worker is given more than one
\* job or desk in a frame.
OneAssignmentPerFrame ==
    frame.on =>
        /\ \E n \in 0 .. 3 :
              frame.passes = SubSeq(<<"assign_jobs_to_pawns",
                                      "assign_deconstruction_jobs_to_pawns",
                                      "assign_reception_staff">>, 1, n)
        /\ \A p \in DOMAIN pawns : frame.assigned[p] <= 1

\* The construction pass of this frame gave the receptionist a job; the
\* deconstruction pass then left a job nobody holds, and the staffing pass a
\* desk nobody staffs
SkippedByLaterPass ==
    /\ frame.on
    /\ Len(frame.passes) = 3
    /\ \E p \in DOMAIN pawns :
          /\ frame.assigned[p] = 1
          /\ pawns[p].current_job \in DOMAIN construction_jobs
          /\ can_do_work(pawns[p].priorities, "Reception")
          /\ pawns[p].staffing = NoEntity
    /\ \E c \in ReceptionConsoles(structures) : ~is_staffed(pawns, c)
    /\ \E j \in DOMAIN deconstruction_jobs :
          /\ deconstruction_jobs[j].assigned_pawn = NoEntity
          /\ deconstruction_jobs[j].marker \in DOMAIN markers


\* The scan of a worker over the jobs of one kind, in every order the job
\* query can yield them: the job found is held by nobody, no such job is
\* nearer, and none as near comes earlier in the scan; the scans together
\* find the jobs of NearestJobs
ScanFindsNearest(jobs, where) ==
    \A p \in DOMAIN pawns :
        LET open == {j \in DOMAIN where : jobs[j].assigned_pawn = NoEntity}
            dist(j) == DistSq(pawns[p].pos, where[j])
            found(scan) == ScanJobs(scan, NoEntity, jobs, where, pawns[p].pos)
        IN /\ \A scan \in VisitOrders(DOMAIN jobs) :
                 IF open = {} THEN found(scan) = NoEntity
                 ELSE /\ found(scan) \in open
                      /\ \A k \in open : dist(found(scan)) <= dist(k)
                      /\ \A i, n \in DOMAIN scan :
                            (/\ scan[n] = found(scan)
                             /\ scan[i] \in open
                             /\ dist(scan[i]) = dist(scan[n])) => n <= i
           /\ NearestJobs(jobs, where, pawns[p].pos) =
                 {found(scan) : scan \in VisitOrders(DOMAIN jobs)} \ {NoEntity}

\* The workers a step gives a job: idle before, with a job after
GivenJob == {p \in DOMAIN pawns : pawns[p].current_job = NoEntity /\
                                  pawns'[p].current_job # NoEntity}

\* Each worker given a job of the kind by this step, taken in some order:
\* its job was held by nobody, no job left by the workers before it was
\* nearer to where it stood, and its movement target is the job's position
GivenNearest(jobs, where) ==
    LET given == {p \in GivenJob : pawns'[p].current_job \in DOMAIN jobs}
        open == {j \in DOMAIN where : jobs[j].assigned_pawn = NoEntity}
    IN \E order \in VisitOrders(given) :
          \A i \in DOMAIN order :
              LET p == order[i]
                  j == pawns'[p].current_job
                  left == open \ {pawns'[order[k]].current_job : k \in 1 .. i - 1}
              IN /\ j \in left
                 /\ \A k \in left : DistSq(pawns[p].pos, where[j]) <=
                                    DistSq(pawns[p].pos, where[k])
                 /\ pawns'[p].target = where[j]

\* C19: the job a worker is given by the construction or the deconstruction
\* pass is, among the jobs of that kind nobody holds at that moment, one at
\* the least distance from the worker to the job's position; of the jobs
\* equally near the scan takes the first; the worker's movement target
\* becomes that position.
NearestJobAssigned ==
    /\ [](/\ ScanFindsNearest(construction_jobs,
                ConstructionTargets(construction_jobs, blueprints, grid_settings))
          /\ ScanFindsNearest(deconstruction_jobs,
                DeconstructionTargets(deconstruction_jobs, markers, grid_settings)))
    /\ [][/\ GivenNearest(construction_jobs,
                ConstructionTargets(construction_jobs, blueprints, grid_settings))
          /\ GivenNearest(deconstruction_jobs,
                DeconstructionTargets(deconstruction_jobs, markers, grid_settings))]_vars

\* A worker still standing where it was given its job, with two jobs
\* nobody holds left: one as near as its own, one farther
NearerOfThreeTaken ==
    \E p \in DOMAIN pawns :
        LET where == ConstructionTargets(construction_jobs, blueprints, grid_settings)
            j == pawns[p].current_job
        IN /\ j \in DOMAIN where
           /\ pawns[p].target = where[j]
           /\ pawns[p].pos = InitialPawn(p - 1).pos
           /\ \E k, m \in DOMAIN where :
                 /\ construction_jobs[k].assigned_pawn = NoEntity
                 /\ construction_jobs[m].assigned_pawn = NoEntity
                 /\ DistSq(pawns[p].pos, where[k]) = DistSq(pawns[p].pos, where[j])
                 /\ DistSq(pawns[p].pos, where[m]) > DistSq(pawns[p].pos, where[j])


(***************************************************************************)
(* SpecIdle: the frames of one worker whose Construction priority the      *)
(* player raises towards disabled, with a wall to build and a wall to      *)
(* take down.                                                              *)
(***************************************************************************)
IdleRequests == 3     \* player requests explored per behaviour of SpecIdle

InitIdle == InitState(BuildGrid, {SaveWall}, IdleRequests, 1, {STARTING_MONEY}, TRUE)

IdleTicks == {5}

\* A shift-click on a worker's Construction cell
RaiseConstruction == \E p \in DOMAIN pawns : handle_cell_clicks(p, "Construction", TRUE)

NextIdle ==
    \/ Scheduled("handle_building_placement") /\ PlaceWallBeside
    \/ Scheduled("handle_context_menu_clicks") /\ OrderByMenu
    \/ Scheduled("handle_cell_clicks") /\ RaiseConstruction
    \/ Scheduled("process_load_requests") /\ process_load_requests
    \/ Scheduled("assign_jobs_to_pawns") /\ assign_jobs_to_pawns
    \/ Scheduled("assign_deconstruction_jobs_to_pawns") /\ assign_deconstruction_jobs_to_pawns
    \/ Scheduled("assign_reception_staff") /\ assign_reception_staff
    \/ Scheduled("move_pawns") /\ \E dt \in IdleTicks : move_pawns(dt)
    \/ Scheduled("work_on_blueprints") /\ \E dt \in IdleTicks : work_on_blueprints(dt)
    \/ Scheduled("complete_blueprints") /\ complete_blueprints
    \/ Scheduled("detect_rooms") /\ detect_rooms
    \/ next_frame

SpecIdle == InitIdle /\ [][NextIdle]_vars

\* C20: a worker is given a ConstructionJob or a DeconstructionJob only
\* while it has no current job and its Construction priority is not 0; a
\* worker that has a job keeps it, target and all, through every assignment
\* pass, and loses it only when the job is gone.
OnlyIdleBuildersGivenJobs ==
    [][\A p \in DOMAIN pawns :
          LET was == pawns[p].current_job
              is == pawns'[p].current_job
              passed == frame'.on /\ Len(frame'.passes) > Len(frame.passes)
          IN /\ (is # was /\ is # NoEntity) =>
                    /\ was = NoEntity
                    /\ get_priority(pawns[p].priorities, "Construction") # DISABLED
                    /\ is \in DOMAIN construction_jobs \cup DOMAIN deconstruction_jobs
             /\ (passed /\ get_priority(pawns[p].priorities, "Construction") = DISABLED) =>
                    is = was
             /\ (passed /\ was # NoEntity) =>
                    /\ is = was
                    /\ pawns'[p].target = pawns[p].target
             /\ (is # was /\ is = NoEntity) =>
                    was \notin DOMAIN construction_jobs' \cup DOMAIN deconstruction_jobs']_vars

\* The construction and deconstruction passes of this frame have run over a
\* job nobody holds, ordered in an earlier frame, and left the idle worker,
\* whose Construction priority was 0 before the frame, without it
DisabledWorkerPassedOver ==
    /\ frame.on
    /\ {"assign_jobs_to_pawns", "assign_deconstruction_jobs_to_pawns"} \subseteq frame.ran
    /\ frame.ran \cap {"handle_building_placement", "handle_context_menu_clicks",
                       "handle_cell_clicks", "process_load_requests"} = {}
    /\ \A p \in DOMAIN pawns :
          /\ pawns[p].current_job = NoEntity
          /\ get_priority(pawns[p].priorities, "Construction") = DISABLED
    /\ \/ \E j \in DOMAIN construction_jobs :
             /\ construction_jobs[j].assigned_pawn = NoEntity
             /\ construction_jobs[j].blueprint \in DOMAIN blueprints
       \/ \E j \in DOMAIN deconstruction_jobs :
             /\ deconstruction_jobs[j].assigned_pawn = NoEntity
             /\ deconstruction_jobs[j].marker \in DOMAIN markers


\* The blueprints a step of complete_blueprints turns into structures:
\* finished, gone after the step, and the step neither a player request nor
\* a load
Completed ==
    {b \in DOMAIN blueprints :
        /\ is_complete(blueprints[b])
        /\ b \notin DOMAIN blueprints'
        /\ requests' = requests
        /\ load_pending' = load_pending}

\* C21: when a blueprint whose work_done has reached work_required is
\* completed, the blueprint and its ConstructionJob are gone, the worker the
\* job was assigned to has no current job, and one finished structure of the
\* blueprint's type stands at its grid position; for a wall, walls at that
\* position names the finished wall.
CompletionBuildsStructure ==
    [][LET built == DOMAIN structures' \ DOMAIN structures
       IN Completed # {} =>
            /\ Cardinality(built) = Cardinality(Completed)
            /\ \A b \in Completed :
                  /\ \A j \in DOMAIN construction_jobs :
                        construction_jobs[j].blueprint = b =>
                            /\ j \notin DOMAIN construction_jobs'
                            /\ construction_jobs[j].assigned_pawn # NoEntity =>
                                  pawns'[construction_jobs[j].assigned_pawn].current_job
                                      = NoEntity
                  /\ \E e \in built :
                        /\ structures'[e].kind = blueprints[b].building_type
                        /\ structures'[e].pos = blueprints[b].pos
                  /\ blueprints[b].building_type = "Wall" =>
                        /\ blueprints[b].pos \in DOMAIN building_map'.walls
                        /\ building_map'.walls[blueprints[b].pos] \in built
                        /\ structures'[building_map'.walls[blueprints[b].pos]].kind = "Wall"]_vars

\* A finished wall stands where the worker built it: walls names it at its
\* tile, no blueprint or job is left, and the worker is idle again
WallBuiltByWorker ==
    /\ blueprints = EmptyMap
    /\ construction_jobs = EmptyMap
    /\ \A p \in DOMAIN pawns : pawns[p].current_job = NoEntity
    /\ \E e \in DOMAIN structures :
          /\ structures[e].kind = "Wall"
          /\ structures[e].pos \notin {save_file.walls[i] : i \in DOMAIN save_file.walls}
          /\ structures[e].pos \in DOMAIN building_map.walls
          /\ building_map.walls[structures[e].pos] = e


\* The blueprints a step creates
NewBlueprints == DOMAIN blueprints' \ DOMAIN blueprints

\* C22: a wall or window blueprint makes is_occupied true at its tile as soon
\* as it is placed and comes with one ConstructionJob; while it stays
\* unfinished no wall or floor blueprint is accepted at its tile and no
\* furniture is accepted over it.
BlueprintHoldsTile ==
    [][/\ \A b \in NewBlueprints :
             blueprints'[b].building_type \in {"Wall", "Window"} =>
                 /\ is_occupied(building_map', blueprints'[b].pos)
                 /\ Cardinality({j \in DOMAIN construction_jobs' :
                                    construction_jobs'[j].blueprint = b}) = 1
       /\ \A b \in DOMAIN blueprints \cap DOMAIN blueprints' :
             blueprints[b].building_type \in {"Wall", "Window"} =>
                 /\ \A n \in NewBlueprints :
                       blueprints'[n].building_type \in {"Wall", "Floor"} =>
                           blueprints'[n].pos # blueprints[b].pos
                 /\ \A e \in DOMAIN structures' \ DOMAIN structures :
                       structures'[e].kind = "Furniture" =>
                           blueprints[b].pos \notin
                               tiles_occupied(structures'[e].furniture_type,
                                              structures'[e].pos,
                                              structures'[e].orientation)]_vars


(***************************************************************************)
(* Properties of a finished deconstruction.                                *)
(***************************************************************************)
\* The markers whose deconstruction this step completes
Deconstructed ==
    {m \in DOMAIN markers : is_complete(markers[m]) /\ m \notin DOMAIN markers'
        /\ requests' = requests /\ load_pending' = load_pending}

DeconstructedFurniture ==
    {m \in Deconstructed : markers[m].target_entity \in DOMAIN structures
        /\ structures[markers[m].target_entity].kind = "Furniture"}

\* The oriented footprint of a furniture object
FootprintOf(s) == tiles_occupied(s.furniture_type, s.pos, s.orientation)

\* C23: when the deconstruction of a furniture object completes, exactly the
\* tiles of the object's oriented footprint leave occupied; no tile outside
\* the footprint changes its membership in occupied.
FootprintReleased ==
    [][\A m \in DeconstructedFurniture :
          Deconstructed = {m} =>
              building_map'.occupied =
                  building_map.occupied \ FootprintOf(structures[markers[m].target_entity])]_vars


(***************************************************************************)
(* SpecRaze: the loaded wall, door and chair of the doorway snapshot are   *)
(* ordered to be taken down from the context menu, and one worker carries  *)
(* the orders out.                                                         *)
(***************************************************************************)
RazeRequests == 3     \* player requests explored per behaviour of SpecRaze

InitRaze == InitWith(BuildGrid, {SaveDoorway}, RazeRequests, 1)

NextRaze ==
    \/ OrderByMenu
    \/ process_load_requests
    \/ assign_deconstruction_jobs_to_pawns
    \/ MarkTick
    \/ complete_deconstruction

SpecRaze == InitRaze /\ [][NextRaze]_vars

\* C24: when a marker whose work is done is completed, its DeconstructionJob,
\* the marker and the target are gone and the worker the job was assigned to
\* has no current job; for a wall target, the tile is in neither walls nor
\* occupied afterwards; for a door target, neither tile of the door's
\* footprint is in doors afterwards.
DeconstructionRemovesTarget ==
    [][\A m \in Deconstructed :
          LET t == markers[m].target_entity
              pos == markers[m].pos
          IN /\ t \notin DOMAIN structures'
             /\ \A j \in DOMAIN deconstruction_jobs :
                   deconstruction_jobs[j].marker = m =>
                       /\ j \notin DOMAIN deconstruction_jobs'
                       /\ deconstruction_jobs[j].assigned_pawn # NoEntity =>
                             pawns'[deconstruction_jobs[j].assigned_pawn].current_job
                                 = NoEntity
             /\ t \in DOMAIN structures =>
                   /\ structures[t].kind = "Wall" =>
                         /\ pos \notin DOMAIN building_map'.walls
                         /\ pos \notin building_map'.occupied
                   /\ structures[t].kind = "Door" =>
                         DoorTiles(pos, structures[t].orientation)
                             \cap DOMAIN building_map'.doors = {}]_vars

\* The loaded door and the loaded wall have both been taken down: no marker
\* or job is left, the worker is idle, and the map has let go of their tiles
DoorAndWallTakenDown ==
    /\ ~load_pending
    /\ building_map.floors # {}
    /\ markers = EmptyMap
    /\ deconstruction_jobs = EmptyMap
    /\ \A p \in DOMAIN pawns : pawns[p].current_job = NoEntity
    /\ \A e \in DOMAIN structures : structures[e].kind \notin {"Wall", "Door"}
    /\ DOMAIN building_map.doors = {}
    /\ DOMAIN building_map.walls = {}


(***************************************************************************)
(* SpecPane: windows and walls are placed on the loaded doorway snapshot,  *)
(* on free tiles, on the wall, on the door and on the chair, and one       *)
(* worker builds them.                                                     *)
(***************************************************************************)
PaneRequests == 2     \* player requests explored per behaviour of SpecPane

InitPane == InitWith(BuildGrid, {SaveDoorway}, PaneRequests, 1)

PlaceWindowOrWall == Place({WindowType, WallType}, GridTiles(grid_settings))

NextPane ==
    \/ PlaceWindowOrWall
    \/ process_load_requests
    \/ assign_jobs_to_pawns
    \/ LoadTick
    \/ complete_blueprints

SpecPane == InitPane /\ [][NextPane]_vars

\* The step is a click of the window tool on tile pos
WindowPlacedAt(pos) == handle_building_placement(WindowType, pos, pos, "None")

\* C25: a window placed on a tile P that holds a wall and no door is accepted
\* (the player being able to pay for it): the wall object is destroyed, P
\* leaves walls, a window blueprint stands on P, and P is in occupied and not
\* in walls afterwards.  A window placed on a tile occupied by something
\* other than a wall, or on a door tile, changes nothing.
WindowReplacesWall ==
    [][\A P \in GridTiles(grid_settings) :
          WindowPlacedAt(P) =>
              /\ (/\ P \in DOMAIN building_map.walls
                  /\ P \notin DOMAIN building_map.doors
                  /\ money >= cost(WindowType)) =>
                     /\ building_map.walls[P] \notin DOMAIN structures'
                     /\ building_map.walls[P] \notin DOMAIN blueprints'
                     /\ P \notin DOMAIN building_map'.walls
                     /\ P \in building_map'.occupied
                     /\ \E b \in NewBlueprints :
                           /\ blueprints'[b].building_type = "Window"
                           /\ blueprints'[b].pos = P
                     /\ money' = money - cost(WindowType)
              /\ (\/ P \in building_map.occupied /\ P \notin DOMAIN building_map.walls
                  \/ P \in DOMAIN building_map.doors) =>
                     UNCHANGED <<building_map, money, blueprints, construction_jobs,
                                 structures, next_entity>>]_vars

\* A window blueprint stands on the tile of the loaded wall, whose object is
\* gone; the tile is occupied and no longer a key of walls
WindowOverLoadedWall ==
    /\ ~load_pending
    /\ \E b \in DOMAIN blueprints :
          /\ blueprints[b].building_type = "Window"
          /\ blueprints[b].pos \in {save_file.walls[i] : i \in DOMAIN save_file.walls}
          /\ blueprints[b].pos \in building_map.occupied
          /\ blueprints[b].pos \notin DOMAIN building_map.walls
          /\ \A e \in DOMAIN structures : structures[e].pos = blueprints[b].pos =>
                structures[e].kind # "Wall"


(***************************************************************************)
(* SpecHall: doors, desks, chairs and walls are placed on a loaded 2 x 2   *)
(* floor with a floorless column beside it, so that footprints lie partly  *)
(* on tiles that refuse them.                                              *)
(***************************************************************************)
HallRequests == 3     \* player requests explored per behaviour of SpecHall

SaveHall ==
    [walls |-> <<>>,
     floors |-> << [position |-> <<0, 0>>, floor_type |-> "Wood"],
                   [position |-> <<0, 1>>, floor_type |-> "Wood"],
                   [position |-> <<1, 0>>, floor_type |-> "Wood"],
                   [position |-> <<1, 1>>, floor_type |-> "Wood"] >>,
     doors |-> <<>>, furniture |-> <<>>]

InitHall == InitWith(BuildGrid, {SaveHall}, HallRequests, 1)

HallTools == {DoorType, WallType, FurnitureOf("Desk"), FurnitureOf("Chair")}

PlaceInHall ==
    \E bt \in HallTools : \E pos \in GridTiles(grid_settings) :
    \E orientation \in ToolOrientations(bt) :
        handle_building_placement(bt, pos, pos, orientation)

NextHall ==
    \/ PlaceInHall
    \/ process_load_requests

SpecHall == InitHall /\ [][NextHall]_vars

\* The step is a click of the door tool, or of a furniture tool, on tile pos
DoorPlacedAt(pos, orientation) ==
    handle_building_placement(DoorType, pos, pos, orientation)

FurniturePlacedAt(ft, pos, orientation) ==
    handle_building_placement(FurnitureOf(ft), pos, pos, orientation)

\* The placement left the map, the objects and the balance as they were
NothingPlaced ==
    UNCHANGED <<building_map, money, blueprints, construction_jobs, structures,
                next_entity>>

\* The predicates of the footprint tiles
DoorMayStandOn(t) ==
    /\ t \notin DOMAIN building_map.doors
    /\ ~(t \in building_map.occupied /\ t \notin DOMAIN building_map.walls)

FurnitureMayStandOn(t) ==
    /\ t \in building_map.floors
    /\ t \notin building_map.occupied
    /\ t \notin DOMAIN building_map.doors

\* C26: a door or a multi-tile furniture placement with a footprint tile
\* that fails its predicate changes no tile of the map, creates no object
\* and debits no money.  With every tile passing (and the cost affordable),
\* a door reserves both tiles in doors and not in occupied, the walls on
\* them being removed; furniture reserves every footprint tile in occupied.
FootprintAllOrNothing ==
    [][\A P \in GridTiles(grid_settings) :
          /\ \A o \in ToolOrientations(DoorType) :
                DoorPlacedAt(P, o) =>
                    LET T == DoorTiles(P, o)
                    IN IF \E t \in T : ~DoorMayStandOn(t) THEN NothingPlaced
                       ELSE money >= cost(DoorType) =>
                              /\ T \subseteq DOMAIN building_map'.doors
                              /\ DOMAIN building_map'.doors = DOMAIN building_map.doors \cup T
                              /\ DOMAIN building_map'.walls = DOMAIN building_map.walls \ T
                              /\ building_map'.occupied =
                                    building_map.occupied \ (T \cap DOMAIN building_map.walls)
                              /\ \A t \in T : t \in DOMAIN building_map.walls =>
                                    /\ building_map.walls[t] \notin DOMAIN structures'
                                    /\ building_map.walls[t] \notin DOMAIN blueprints'
                              /\ \E b \in NewBlueprints :
                                    /\ blueprints'[b].building_type = "Door"
                                    /\ blueprints'[b].pos = P
                              /\ money' = money - cost(DoorType)
          /\ \A ft \in {"Desk"} : \A o \in ToolOrientations(FurnitureOf(ft)) :
                FurniturePlacedAt(ft, P, o) =>
                    LET T == tiles_occupied(ft, P, o)
                    IN IF \E t \in T : ~FurnitureMayStandOn(t) THEN NothingPlaced
                       ELSE money >= cost(FurnitureOf(ft)) =>
                              /\ building_map' =
                                    [building_map EXCEPT !.occupied = @ \cup T]
                              /\ \E e \in DOMAIN structures' \ DOMAIN structures :
                                    /\ structures'[e].kind = "Furniture"
                                    /\ structures'[e].furniture_type = ft
                                    /\ structures'[e].pos = P
                              /\ money' = money - cost(FurnitureOf(ft))]_vars

\* A desk stands on its four tiles, all occupied, and a door blueprint holds
\* its two tiles in doors, neither of them occupied
DeskAndDoorReserved ==
    /\ \E e \in DOMAIN structures :
          /\ structures[e].kind = "Furniture"
          /\ structures[e].furniture_type = "Desk"
          /\ FootprintOf(structures[e]) \subseteq building_map.occupied
          /\ Cardinality(FootprintOf(structures[e])) = 4
    /\ \E b \in DOMAIN blueprints :
          /\ blueprints[b].building_type = "Door"
          /\ \A t \in DoorTiles(blueprints[b].pos, blueprints[b].orientation) :
                /\ t \in DOMAIN building_map.doors
                /\ building_map.doors[t] = b
                /\ t \notin building_map.occupied


(***************************************************************************)
(* SpecFill: a 9 x 4 map is loaded from a snapshot drawn from a family:    *)
(* a ring of walls around the 7 x 2 interior with up to two gaps, up to    *)
(* MaxInner walls inside, possibly a door and a chair inside; the rooms    *)
(* are then detected.                                                      *)
(***************************************************************************)
MaxInner == 2     \* walls inside the ring, at most

FillGrid == [width |-> 9, height |-> 4]

FillInterior == (1 .. 7) \X (1 .. 2)

FillRing ==
    {t \in GridTiles(FillGrid) :
        /\ t \notin FillInterior
        /\ \E s \in FillInterior : s = Shift(t, 1, 0) \/ s = Shift(t, -1, 0)
                                      \/ s = Shift(t, 0, 1) \/ s = Shift(t, 0, -1)}

FillGaps == SUBSET {<<0, 1>>, <<8, 2>>}

FillDoors ==
    {<<>>, << [position |-> <<3, 1>>, orientation |-> "Vertical"] >>}

FillFurniture ==
    {<<>>,
     << [position |-> <<5, 2>>, furniture_type |-> "Chair", orientation |-> "East"] >>}

\* The tiles of S in (x, y) order, from tile number i = x * height + y on
RECURSIVE TilesInOrder(_, _)
TilesInOrder(S, i) ==
    IF i >= FillGrid.width * FillGrid.height THEN <<>>
    ELSE LET pos == <<i \div FillGrid.height, i % FillGrid.height>>
         IN (IF pos \in S THEN <<pos>> ELSE <<>>) \o TilesInOrder(S, i + 1)

FillSaves ==
    {sort_save_data([walls |-> TilesInOrder((FillRing \ gaps) \cup inner, 0),
                     floors |-> <<>>, doors |-> doors, furniture |-> furniture]) :
        gaps \in FillGaps,
        inner \in {W \in SUBSET FillInterior : Cardinality(W) <= MaxInner},
        doors \in FillDoors, furniture \in FillFurniture}

InitFill == InitWith(FillGrid, FillSaves, 0, 1)

NextFill ==
    \/ process_load_requests
    \/ detect_rooms

SpecFill == InitFill /\ [][NextFill]_vars

\* The outermost ring of the grid: x or y equal to 0 or to max - 1
OuterRing ==
    {t \in GridTiles(grid_settings) :
        \/ t[1] = 0 \/ t[1] = grid_settings.width - 1
        \/ t[2] = 0 \/ t[2] = grid_settings.height - 1}

\* The tiles of open connected to S through tiles of open
RECURSIVE Connected(_, _)
Connected(S, open) ==
    LET more == {t \in open \ S : \E s \in S : Adjacent(s, t)}
    IN IF more = {} THEN S ELSE Connected(S \cup more, open)

\* The maximal 4-connected regions of the tiles of open
RECURSIVE Regions(_)
Regions(open) ==
    IF open = {} THEN {}
    ELSE LET R == Connected({CHOOSE t \in open : TRUE}, open)
         IN {R} \cup Regions(open \ R)

\* C27: the rooms the flood fill returns are exactly the maximal
\* 4-connected regions of in-grid tiles neither occupied nor door tiles that
\* hold no tile of the outermost ring and have at least 4 tiles; no tile of
\* a region touching the ring is in any room, and the rooms are pairwise
\* disjoint.
RoomsAreEnclosedRegions ==
    LET found == find_enclosed_rooms(building_map, grid_settings)
        regions == Regions({t \in GridTiles(grid_settings) :
                              ~is_occupied(building_map, t)
                              /\ t \notin DOMAIN building_map.doors})
    IN /\ {found[i] : i \in DOMAIN found} =
             {R \in regions : R \cap OuterRing = {} /\ Cardinality(R) >= 4}
       /\ \A i, j \in DOMAIN found : i # j => found[i] \cap found[j] = {}
       /\ \A R \in regions : R \cap OuterRing # {} =>
             \A i \in DOMAIN found : found[i] \cap R = {}

\* Two rooms of different sizes have been detected, while another region of
\* the interior reaches the outer ring through a gap in the walls
TwoRoomsAndAnOpenRegion ==
    /\ \E r, q \in DOMAIN rooms : Cardinality(rooms[r]) > Cardinality(rooms[q])
    /\ \E t \in FillInterior \ UNION {rooms[r] : r \in DOMAIN rooms} :
          /\ ~is_occupied(building_map, t)
          /\ t \notin DOMAIN building_map.doors
          /\ \E s \in OuterRing : Adjacent(s, t) /\ ~is_occupied(building_map, s)


(***************************************************************************)
(* Rooms against the flood fill of the present map                         *)
(***************************************************************************)
\* C28: once room detection has run after the last change of the walls that
\* stand (a wall completed or loaded, or a wall removed by deconstruction),
\* the Rooms are the flood-fill result on the present map: every room found
\* is there once, and no stale Room is left.  States with an unfinished
\* blueprint on the map are left aside.
RoomsRecomputed ==
    (detect_ran /\ blueprints = EmptyMap) =>
        LET found == find_enclosed_rooms(building_map, grid_settings)
        IN /\ {rooms[r] : r \in DOMAIN rooms} = {found[i] : i \in DOMAIN found}
           /\ Cardinality(DOMAIN rooms) = Len(found)


(***************************************************************************)
(* SpecWing: a 7 x 5 map whose save file holds the walls around a floored  *)
(* 5 x 3 interior and two walls of a partition with a gap between them.    *)
(* The player closes the gap with a wall, puts beds on either side, and    *)
(* loads the save file again, acting while nothing is being built.         *)
(***************************************************************************)
WingRequests == 5     \* player requests explored per behaviour of SpecWing

WingGrid == [width |-> 7, height |-> 5]

WingInterior == (1 .. 5) \X (1 .. 3)

WingGap == <<3, 2>>

SaveWing ==
    sort_save_data(
        [walls |-> [i \in 1 .. 5 |-> <<i, 0>>] \o [i \in 1 .. 5 |-> <<i, 4>>]
                   \o [i \in 1 .. 3 |-> <<0, i>>] \o [i \in 1 .. 3 |-> <<6, i>>]
                   \o << <<3, 1>>, <<3, 3>> >>,
         floors |-> [i \in 1 .. 15 |->
                       [position |-> <<1 + ((i - 1) \div 3), 1 + ((i - 1) % 3)>>,
                        floor_type |-> "Wood"]],
         doors |-> <<>>, furniture |-> <<>>])

InitWing == InitWith(WingGrid, {SaveWing}, WingRequests, 1)

\* The player acts while nothing is under construction and the load and the
\* room detection that are due have run, asks for nothing the game would
\* refuse, and loads once bedrooms have been classified
SiteIdle == blueprints = EmptyMap /\ ~load_pending /\ ~wall_changed

CloseGap ==
    /\ SiteIdle
    /\ ~should_skip(building_map, WingGap)
    /\ handle_building_placement(WallType, WingGap, WingGap, "None")

PlaceBed ==
    /\ SiteIdle
    /\ \E pos \in {<<1, 1>>, <<4, 1>>} :
          /\ can_place(building_map, tiles_occupied("BedSingle", pos, "East"))
          /\ handle_building_placement(FurnitureOf("BedSingle"), pos, pos, "East")

LoadAgain == SiteIdle /\ zones # EmptyMap /\ request_load_on_hotkey

\* The runs of detect_rooms that get past its early return
RedetectRooms == wall_changed /\ detect_rooms

\* The bedroom passes that follow a request of the player or a load
ClassifyBedrooms ==
    /\ last_call.op # "auto_assign_bedroom_zones"
    /\ auto_assign_bedroom_zones

NextWing ==
    \/ CloseGap
    \/ PlaceBed
    \/ LoadAgain
    \/ process_load_requests
    \/ assign_jobs_to_pawns
    \/ LoadTick
    \/ complete_blueprints
    \/ RedetectRooms
    \/ ClassifyBedrooms

SpecWing == InitWing /\ [][NextWing]_vars

\* C29: no two Zones of the same type share a tile: the classifier updates
\* the Zone a Room overlaps in place and adds no second one.
ZonesOfOneTypeDisjoint ==
    \A y, z \in DOMAIN zones :
        (y # z /\ zones[y].zone_type = zones[z].zone_type) =>
            zones[y].tiles \cap zones[z].tiles = {}


(***************************************************************************)
(* SpecGrade: the quality functions of the classifiers, called on the tile *)
(* and furniture counts of a room.                                         *)
(***************************************************************************)
MaxTiles == 42        \* largest tile count a quality function is called on
MaxFurniture == 7     \* largest furniture count a quality function is called on

InitGrade == InitWith(BuildGrid, {EmptySave}, 0, 1)

\* calculate_bedroom_quality(room.tile_count(), furniture_in_room.len())
ask_bedroom_quality ==
    /\ \E tile_count \in 0 .. MaxTiles : \E furniture_count \in 0 .. MaxFurniture :
          last_call' = [op |-> "calculate_bedroom_quality",
                        tile_count |-> tile_count,
                        furniture_count |-> furniture_count,
                        result |-> calculate_bedroom_quality(tile_count, furniture_count)]
    /\ UNCHANGED <<grid_settings, building_map, money, blueprints, construction_jobs,
                   structures, markers, deconstruction_jobs, pawns, rooms, zones,
                   wall_changed, next_entity, save_file, load_pending, requests, elapsed,
                   round_trip, detect_ran>>
    /\ frame' = FrameAfter("ask_bedroom_quality")

\* calculate_lobby_quality(room.tile_count(), furniture_in_room.len())
ask_lobby_quality ==
    /\ \E tile_count \in 0 .. MaxTiles : \E furniture_count \in 0 .. MaxFurniture :
          last_call' = [op |-> "calculate_lobby_quality",
                        tile_count |-> tile_count,
                        furniture_count |-> furniture_count,
                        result |-> calculate_lobby_quality(tile_count, furniture_count)]
    /\ UNCHANGED <<grid_settings, building_map, money, blueprints, construction_jobs,
                   structures, markers, deconstruction_jobs, pawns, rooms, zones,
                   wall_changed, next_entity, save_file, load_pending, requests, elapsed,
                   round_trip, detect_ran>>
    /\ frame' = FrameAfter("ask_lobby_quality")

NextGrade ==
    \/ ask_bedroom_quality
    \/ ask_lobby_quality
    \/ process_load_requests

SpecGrade == InitGrade /\ [][NextGrade]_vars

\* C30: bedroom quality is None below 12 tiles and otherwise Basic for 0-1
\* furniture, Good for 2-3, Excellent for 4-5 and Luxury for 6 or more; lobby
\* quality is None below 15 tiles and otherwise Luxury if tiles >= 40 and
\* furniture >= 5, else Excellent if tiles >= 30 and furniture >= 4, else Good
\* if tiles >= 20 and furniture >= 2, else Basic.
QualityTables ==
    LET t == last_call.tile_count
        f == last_call.furniture_count
        q == last_call.result
    IN /\ last_call.op = "calculate_bedroom_quality" =>
             /\ t < 12 => q = "None"
             /\ (t >= 12 /\ f \in 0 .. 1) => q = "Basic"
             /\ (t >= 12 /\ f \in 2 .. 3) => q = "Good"
             /\ (t >= 12 /\ f \in 4 .. 5) => q = "Excellent"
             /\ (t >= 12 /\ f >= 6) => q = "Luxury"
       /\ last_call.op = "calculate_lobby_quality" =>
             LET luxury == t >= 40 /\ f >= 5
                 excellent == t >= 30 /\ f >= 4
                 good == t >= 20 /\ f >= 2
             IN /\ t < 15 => q = "None"
                /\ (t >= 15 /\ luxury) => q = "Luxury"
                /\ (t >= 15 /\ ~luxury /\ excellent) => q = "Excellent"
                /\ (t >= 15 /\ ~luxury /\ ~excellent /\ good) => q = "Good"
                /\ (t >= 15 /\ ~luxury /\ ~excellent /\ ~good) => q = "Basic"

\* A lobby of 40 tiles with 4 pieces of furniture has been graded: large
\* enough for Luxury, furnished for Excellent
LargeLobbyGradedExcellent ==
    /\ last_call.op = "calculate_lobby_quality"
    /\ last_call.tile_count = 40
    /\ last_call.furniture_count = 4
    /\ last_call.result = "Excellent"


(***************************************************************************)
(* Zones against the requirements of their type                            *)
(***************************************************************************)
\* C31: a GuestBedroom Zone is created only for a Room of at least 12 tiles
\* with a Bed inside it: the Zones a bedroom pass has just added have at
\* least 12 tiles and hold the grid position of a Bed.
ZoneOnlyForQualifiedRoom ==
    last_call.op = "auto_assign_bedroom_zones" =>
        \A z \in DOMAIN zones \ DOMAIN last_call.zones :
            zones[z].zone_type = "GuestBedroom" =>
                /\ Cardinality(zones[z].tiles) >= 12
                /\ BedIn(zones[z].tiles)


\* The worker a job of either kind is assigned to, or NoEntity
HolderOf(cjobs, djobs, j) ==
    IF j \in DOMAIN cjobs THEN cjobs[j].assigned_pawn ELSE djobs[j].assigned_pawn

\* C32: there is no mid-job cancellation: a job that has an assigned worker
\* keeps that worker for as long as the job exists, and the worker's
\* current job keeps naming the job; a worker whose Construction priority
\* is set to 0 while it holds a ConstructionJob still adds its work on every
\* tick it spends within reach of the blueprint.
NoMidJobCancellation ==
    /\ [](\A j \in DOMAIN construction_jobs \cup DOMAIN deconstruction_jobs :
            LET p == HolderOf(construction_jobs, deconstruction_jobs, j)
            IN p # NoEntity => pawns[p].current_job = j)
    /\ [][/\ \A j \in (DOMAIN construction_jobs \cup DOMAIN deconstruction_jobs)
                        \cap (DOMAIN construction_jobs' \cup DOMAIN deconstruction_jobs') :
                LET p == HolderOf(construction_jobs, deconstruction_jobs, j)
                IN p # NoEntity =>
                      /\ HolderOf(construction_jobs', deconstruction_jobs', j) = p
                      /\ pawns'[p].current_job = j
         /\ (\E dt \in IdleTicks : work_on_blueprints(dt)) =>
                \A j \in DOMAIN construction_jobs :
                    LET p == construction_jobs[j].assigned_pawn
                        b == construction_jobs[j].blueprint
                    IN (/\ p # NoEntity
                        /\ ~can_do_work(pawns[p].priorities, "Construction")
                        /\ b \in DOMAIN blueprints
                        /\ blueprints[b].work_done < blueprints[b].work_required
                        /\ InRange(pawns[p].pos,
                                   BlueprintWorldPos(blueprints[b], grid_settings))) =>
                           blueprints'[b].work_done > blueprints[b].work_done]_vars

\* The worker's Construction priority went to 0 after it took the job, and
\* the blueprint it holds has been worked to the end all the same
DisabledWorkerFinishes ==
    \E j \in DOMAIN construction_jobs :
        LET p == construction_jobs[j].assigned_pawn
            b == construction_jobs[j].blueprint
        IN /\ p # NoEntity
           /\ pawns[p].current_job = j
           /\ ~can_do_work(pawns[p].priorities, "Construction")
           /\ b \in DOMAIN blueprints
           /\ blueprints[b].work_done = blueprints[b].work_required


\* The ConstructionJobs of a blueprint whose assigned worker stands less
\* than three tile widths from it
JobsInReach(b) ==
    {j \in DOMAIN construction_jobs :
        /\ construction_jobs[j].blueprint = b
        /\ construction_jobs[j].assigned_pawn # NoEntity
        /\ DistSq(pawns[construction_jobs[j].assigned_pawn].pos,
                  BlueprintWorldPos(blueprints[b], grid_settings))
             < (TILE_SIZE * INTERACTION_TILES) * (TILE_SIZE * INTERACTION_TILES)}

CurrentJobExists ==
    \A p \in DOMAIN pawns :
        \/ pawns[p].current_job = NoEntity
        \/ pawns[p].current_job \in DOMAIN construction_jobs \cup DOMAIN deconstruction_jobs


(***************************************************************************)
(* SpecDone: one worker, walls to build and to take down, and the load     *)
(* key, under a schedule that runs every system of WorkPlugin, PawnPlugin  *)
(* and SaveLoadPlugin in every frame.                                      *)
(***************************************************************************)
DoneRequests == 3     \* player requests explored per behaviour of SpecDone

InitDone == InitWith(BuildGrid, {SaveWall}, DoneRequests, 1)

DoneTicks == {5}

NextDone ==
    \/ PlaceOneWall
    \/ OrderByMenu
    \/ request_load_on_hotkey
    \/ process_load_requests
    \/ assign_jobs_to_pawns
    \/ assign_deconstruction_jobs_to_pawns
    \/ \E dt \in DoneTicks : move_pawns(dt)
    \/ \E dt \in DoneTicks : work_on_blueprints(dt)
    \/ \E dt \in DoneTicks : work_on_deconstruction(dt)
    \/ complete_blueprints
    \/ complete_deconstruction

\* Update runs every system once per frame, for as long as the app runs
EveryFrame ==
    /\ WF_vars(process_load_requests)
    /\ WF_vars(assign_jobs_to_pawns)
    /\ WF_vars(assign_deconstruction_jobs_to_pawns)
    /\ WF_vars(\E dt \in DoneTicks : move_pawns(dt))
    /\ WF_vars(\E dt \in DoneTicks : work_on_blueprints(dt))
    /\ WF_vars(\E dt \in DoneTicks : work_on_deconstruction(dt))
    /\ WF_vars(complete_blueprints)
    /\ WF_vars(complete_deconstruction)

SpecDone == InitDone /\ [][NextDone]_vars /\ EveryFrame

\* The player has stopped: no placement, order or load is still to come
PlayerIdle == requests = 0 /\ ~load_pending

\* No job is left and no worker holds one
AllWorkDone ==
    /\ construction_jobs = EmptyMap
    /\ deconstruction_jobs = EmptyMap
    /\ \A p \in DOMAIN pawns : pawns[p].current_job = NoEntity

\* C35: once the player has stopped and a worker has Construction enabled,
\* every ConstructionJob and DeconstructionJob is eventually assigned and
\* completed and every worker eventually has no current job.
AllJobsEventuallyDone ==
    (PlayerIdle /\ \E p \in DOMAIN pawns : can_do_work(pawns[p].priorities, "Construction"))
        ~> AllWorkDone

\* The same for a world in which every current job names a job that exists
HealthyJobsEventuallyDone ==
    (PlayerIdle /\ CurrentJobExists) ~> AllWorkDone


\* C36: every key of walls is also in occupied, whatever was placed, built
\* and taken down before, furniture next to a wall included.
WallsAreOccupied == DOMAIN building_map.walls \subseteq building_map.occupied


\* C37: the balance is never negative, and every debit is the cost of the
\* tool times the number of tiles paid for, each of them covered by the
\* balance it was taken from, tile by tile in a drag.
MoneyNeverNegative ==
    /\ [](money >= 0)
    /\ [][money' # money =>
            \E bt \in PoorTools : \E n \in 1 .. Cardinality(GridTiles(grid_settings)) :
                /\ money' = money - n * cost(bt)
                /\ Cardinality(NewBlueprints) + Cardinality(DOMAIN structures' \ DOMAIN structures) = n
                /\ \A k \in 1 .. n : can_afford(money - (k - 1) * cost(bt), cost(bt))]_vars

\* Four wall tiles were paid out of a balance of 40, which is spent to the
\* last coin
DragSpentTheBalance ==
    /\ money = 0
    /\ Cardinality({b \in DOMAIN blueprints : blueprints[b].building_type = "Wall"}) = 4


(***************************************************************************)
(* SpecShift: one worker between two reception consoles and the walls the  *)
(* player orders, with Reception switched on from the work table.          *)
(***************************************************************************)
ShiftRequests == 2    \* player requests explored per behaviour of SpecShift

InitShift == InitWith(BuildGrid, {SaveConsoles}, ShiftRequests, 1)

ShiftTicks == {5}

NextShift ==
    \/ ClickReception
    \/ PlaceOneWall
    \/ OrderByMenu
    \/ process_load_requests
    \/ assign_jobs_to_pawns
    \/ assign_deconstruction_jobs_to_pawns
    \/ assign_reception_staff
    \/ \E dt \in ShiftTicks : move_pawns(dt)
    \/ \E dt \in ShiftTicks : work_on_blueprints(dt)
    \/ \E dt \in ShiftTicks : work_on_deconstruction(dt)
    \/ complete_blueprints
    \/ complete_deconstruction

SpecShift == InitShift /\ [][NextShift]_vars

\* C38: a worker that holds a StaffingReception is given no ConstructionJob
\* or DeconstructionJob, and a worker that has a current job is given no
\* StaffingReception.
StaffAndJobsApart ==
    [][\A p \in DOMAIN pawns :
          /\ (pawns'[p].current_job # pawns[p].current_job
                /\ pawns'[p].current_job # NoEntity) =>
                    pawns[p].staffing = NoEntity
          /\ (pawns'[p].staffing # pawns[p].staffing
                /\ pawns'[p].staffing # NoEntity) =>
                    pawns[p].current_job = NoEntity]_vars

\* The half of it that holds: StaffingReception goes to idle workers only
StaffOnlyFromIdle ==
    [][\A p \in DOMAIN pawns :
          (pawns'[p].staffing # pawns[p].staffing /\ pawns'[p].staffing # NoEntity) =>
              pawns[p].current_job = NoEntity]_vars


(***************************************************************************)
(* SpecRank: two workers whose Construction and Reception priorities the   *)
(* player moves up and down, two reception consoles and a wall to build.   *)
(***************************************************************************)
RankRequests == 2     \* player requests explored per behaviour of SpecRank
RankPawns == 2        \* workers of SpecRank

InitRank == InitWith(BuildGrid, {SaveConsoles}, RankRequests, RankPawns)

RankTicks == {5}

\* The work types the scheduler asks can_do_work for
ScheduledWork == {"Construction", "Reception"}

ClickScheduledWork ==
    \E p \in DOMAIN pawns : \E wt \in ScheduledWork : \E shift_pressed \in BOOLEAN :
        handle_cell_clicks(p, wt, shift_pressed)

NextRank ==
    \/ ClickScheduledWork
    \/ PlaceOneWall
    \/ OrderByMenu
    \/ process_load_requests
    \/ assign_jobs_to_pawns
    \/ assign_deconstruction_jobs_to_pawns
    \/ assign_reception_staff
    \/ \E dt \in RankTicks : move_pawns(dt)
    \/ \E dt \in RankTicks : work_on_blueprints(dt)
    \/ complete_blueprints

SpecRank == InitRank /\ [][NextRank]_vars

\* The priority values a player can give an enabled work type
Ranks == 1 .. 4

\* The worlds that differ from ps only in the non-zero priority values of
\* the cells <<worker, work type>>: what is disabled stays disabled, what is
\* enabled takes any rank
RECURSIVE RerankedFrom(_, _)
RerankedFrom(ps, cells) ==
    IF cells = {} THEN {ps}
    ELSE LET cell == CHOOSE c \in cells : TRUE
             p == cell[1]
             wt == cell[2]
             rest == RerankedFrom(ps, cells \ {cell})
         IN IF get_priority(ps[p].priorities, wt) = DISABLED THEN rest
            ELSE {[alt EXCEPT ![p].priorities = set_priority(@, wt, n)] :
                     alt \in rest, n \in Ranks}

Reranked(ps) == RerankedFrom(ps, (DOMAIN ps) \X WorkTypes)

\* What a pass decides for each worker
Assignment(ps) ==
    [p \in DOMAIN ps |-> [current_job |-> ps[p].current_job,
                          target |-> ps[p].target,
                          staffing |-> ps[p].staffing]]

\* The outcomes of an assignment pass over jobs, in every query order
JobPassResults(jobs, ps, where) ==
    {[jobs |-> out.jobs, pawns |-> Assignment(out.pawns)] :
        out \in UNION {AssignOutcomes(order, jobs, ps, where) :
                          order \in VisitOrders(DOMAIN ps)}}

\* The outcomes of assign_reception_staff, in every query order
StaffPassResults(ps) ==
    UNION {{Assignment(StaffDesks(consoles, pawn_order, ps, ps, structures, grid_settings)) :
                pawn_order \in VisitOrders(DOMAIN ps)} :
           consoles \in VisitOrders(ReceptionConsoles(structures))}

\* C39: job and staffing assignment depend on whether a work type is enabled
\* for a worker and not on its rank: from any state, the three assignment
\* passes decide the same in every world that differs only in the non-zero
\* priority values.
AssignmentIgnoresRank ==
    LET ctargets == ConstructionTargets(construction_jobs, blueprints, grid_settings)
        dtargets == DeconstructionTargets(deconstruction_jobs, markers, grid_settings)
        built == JobPassResults(construction_jobs, pawns, ctargets)
        razed == JobPassResults(deconstruction_jobs, pawns, dtargets)
        staffed == StaffPassResults(pawns)
    IN \A alt \in Reranked(pawns) :
          /\ JobPassResults(construction_jobs, alt, ctargets) = built
          /\ JobPassResults(deconstruction_jobs, alt, dtargets) = razed
          /\ StaffPassResults(alt) = staffed

\* The worker with the lower Construction rank holds the wall's job while
\* the worker with the higher rank stands idle
LowerRankHoldsTheJob ==
    \E p, q \in DOMAIN pawns :
        /\ get_priority(pawns[p].priorities, "Construction") = 2
        /\ get_priority(pawns[q].priorities, "Construction") = 3
        /\ pawns[p].current_job = NoEntity
        /\ pawns[q].current_job \in DOMAIN construction_jobs


\* C40: every tile of occupied, walls, doors and floors lies inside the
\* grid, the second footprint tile of a door on the last column or row
\* included.
MapTilesInsideGrid ==
    \A t \in building_map.occupied \cup DOMAIN building_map.walls
                \cup DOMAIN building_map.doors \cup building_map.floors :
        InGrid(grid_settings, t)

====
